---- MODULE Spec2Model ----
(***************************************************************************)
(* Classification and aggregation engine of the workforce data collector:  *)
(* tier classification of job titles and grade codes, gender-token          *)
(* normalisation, name-based gender estimation, and the per-tier/per-gender *)
(* aggregate built by the profile collector.                                *)
(*                                                                          *)
(* A Python string is a sequence of one-character strings; None is the      *)
(* value NoneVal, which is no string.                                       *)
(***************************************************************************)
EXTENDS Integers, Sequences, FiniteSets, TLC

VARIABLES
    \* tier classification (SpecTier)
    title, grade, tier_mapping,
    dt_tier,                  \* what adapter.classify_tier(title, grade) returned
    ct_tier,                  \* what classify_title(title) returned
    classified,               \* the classifiers that have returned
    \* gender-token normalisation (SpecGender)
    value, row, field_mapping, gender_values, ng_gender, row_gender,
    \* the profile collector (Spec)
    impl,                     \* which collector runs: "linkedin" or "equiverse"
    is_logged_in,             \* self.is_logged_in
    login_result,             \* what the latest collector.login(...) returned
    pc,                       \* where run_collection stands
    max_pages, page,          \* the page loop of search_company_employees
    fed,                      \* the profile cards the card loop has taken so far
    tiers,                    \* result.tier_1_board .. result.tier_6_entry
    total_profiles_analyzed,  \* result.total_profiles_analyzed
    raw_entries,              \* the local list raw_entries (equiverse)
    result_raw,               \* result._raw_entries (equiverse)
    returned,                 \* what search_company_employees returned
    summary,                  \* what print_research_summary printed
    saved,                    \* the files save_research_data has written
    \* CSVAdapter.fetch_employees and the aggregation of its records (SpecFetch);
    \* the adapter's configuration is tier_mapping, field_mapping, gender_values
    csv,                      \* the rows of the file at file_path, or NoneVal: no such file
    df,                       \* self.df: NoneVal until connect() has loaded the file
    active_values,            \* self.active_values
    fpc,                      \* where the adapter's caller stands
    idx,                      \* the row `for _, row in self.df.iterrows()` takes next
    employees,                \* the list fetch_employees builds and returns
    tier_counts,              \* the dict tier_counts of the aggregation
    report,                   \* the tier lines the aggregation prints
    \* one AggregateCount and what is read from it (SpecCount)
    bucket, bucket_read,
    \* name-based gender estimation (SpecName)
    eg_name, eg_gender

tierVars == <<title, grade, tier_mapping, dt_tier, ct_tier, classified>>
genderVars == <<value, row, field_mapping, gender_values, ng_gender, row_gender>>
collectVars == <<impl, is_logged_in, login_result, pc, max_pages, page, fed, tiers,
                 total_profiles_analyzed, raw_entries, result_raw, returned,
                 summary, saved>>
fetchVars == <<csv, df, active_values, fpc, idx, employees, tier_counts, report>>
countVars == <<bucket, bucket_read>>
nameVars == <<eg_name, eg_gender>>
restVars == <<fetchVars, countVars, nameVars>>
vars == <<tierVars, genderVars, collectVars, restVars>>

(***************************************************************************)
(* Python built-ins used by the code                                       *)
(***************************************************************************)
NoneVal == <<"None">>

LowerLetters == <<"a","b","c","d","e","f","g","h","i","j","k","l","m","n","o","p","q","r","s","t","u","v","w","x","y","z">>
UpperLetters == <<"A","B","C","D","E","F","G","H","I","J","K","L","M","N","O","P","Q","R","S","T","U","V","W","X","Y","Z">>

\* str.isspace for the characters that occur
Whitespace == {" ", "\t", "\n"}

IndexOf(c, letters) ==
    IF \E i \in 1..Len(letters) : letters[i] = c
    THEN CHOOSE i \in 1..Len(letters) : letters[i] = c
    ELSE 0

\* faulty variant: the title is matched as written, without lower-casing
lower_unchanged(s) == s

\* str.lower()
lower(s) ==
    [i \in 1..Len(s) |->
        LET k == IndexOf(s[i], UpperLetters)
        IN  IF k = 0 THEN s[i] ELSE LowerLetters[k]]

\* str.upper()
upper(s) ==
    [i \in 1..Len(s) |->
        LET k == IndexOf(s[i], LowerLetters)
        IN  IF k = 0 THEN s[i] ELSE UpperLetters[k]]

\* str.strip()
strip(s) ==
    LET keep == {i \in 1..Len(s) : s[i] \notin Whitespace}
    IN  IF keep = {} THEN <<>>
        ELSE SubSeq(s, CHOOSE i \in keep : \A j \in keep : i <= j,
                       CHOOSE i \in keep : \A j \in keep : i >= j)

\* `sub in s` for strings
contains(s, sub) ==
    \E i \in 0..(Len(s) - Len(sub)) : SubSeq(s, i + 1, i + Len(sub)) = sub

\* `x in lst` for lists
InList(x, lst) == \E i \in 1..Len(lst) : lst[i] = x

\* `not v` for a string or None
Falsy(v) == v = NoneVal \/ v = <<>>

\* `v or d`
Or(v, d) == IF Falsy(v) THEN d ELSE v

\* dict.get(key, default); a dict is a function
Get(d, key, default) == IF key \in DOMAIN d THEN d[key] ELSE default

EmptyDict == <<>>

(***************************************************************************)
(* federated/data_adapter.py: DataAdapter.classify_tier                    *)
(***************************************************************************)
DEFAULT_TIER_KEYWORDS ==
    <<  [keywords |-> << <<"b","o","a","r","d">>, <<"d","i","r","e","c","t","o","r">>, <<"n","o","n","-","e","x","e","c","u","t","i","v","e">>, <<"i","n","d","e","p","e","n","d","e","n","t"," ","d","i","r","e","c","t","o","r">>,
                         <<"c","h","a","i","r","m","a","n">>, <<"c","h","a","i","r","p","e","r","s","o","n">> >>,
         grades   |-> << >>],
        [keywords |-> << <<"c","e","o">>, <<"c","f","o">>, <<"c","t","o">>, <<"c","o","o">>, <<"c","m","o">>, <<"c","p","o">>, <<"c","h","r","o">>, <<"c","i","o">>,
                         <<"c","h","i","e","f">>, <<"m","a","n","a","g","i","n","g"," ","d","i","r","e","c","t","o","r">>, <<"m","d">>, <<"p","r","e","s","i","d","e","n","t">>,
                         <<"e","x","e","c","u","t","i","v","e"," ","d","i","r","e","c","t","o","r">>, <<"e","d">>, <<"s","v","p">>, <<"s","e","n","i","o","r"," ","v","i","c","e"," ","p","r","e","s","i","d","e","n","t">> >>,
         grades   |-> << <<"E","1">>, <<"E","2">>, <<"L","1","0">>, <<"L","9">> >>],
        [keywords |-> << <<"v","i","c","e"," ","p","r","e","s","i","d","e","n","t">>, <<"v","p"," ">>, <<"a","v","p">>, <<"a","s","s","o","c","i","a","t","e"," ","v","i","c","e"," ","p","r","e","s","i","d","e","n","t">>,
                         <<"g","e","n","e","r","a","l"," ","m","a","n","a","g","e","r">>, <<"g","m">>, <<"s","e","n","i","o","r"," ","d","i","r","e","c","t","o","r">>, <<"h","e","a","d"," ","o","f">>,
                         <<"p","r","i","n","c","i","p","a","l">>, <<"e","v","p">> >>,
         grades   |-> << <<"E","3">>, <<"E","4">>, <<"L","8">>, <<"L","7">>, <<"M","5">>, <<"M","4">> >>],
        [keywords |-> << <<"d","i","r","e","c","t","o","r">>, <<"s","e","n","i","o","r"," ","m","a","n","a","g","e","r">>, <<"m","a","n","a","g","e","r">>, <<"a","s","s","o","c","i","a","t","e"," ","d","i","r","e","c","t","o","r">>,
                         <<"p","r","o","g","r","a","m"," ","m","a","n","a","g","e","r">>, <<"d","e","l","i","v","e","r","y"," ","m","a","n","a","g","e","r">>, <<"p","r","o","j","e","c","t"," ","m","a","n","a","g","e","r">> >>,
         grades   |-> << <<"M","3">>, <<"M","2">>, <<"L","6">>, <<"L","5">> >>],
        [keywords |-> << <<"l","e","a","d">>, <<"t","e","a","m"," ","l","e","a","d">>, <<"t","e","c","h"," ","l","e","a","d">>, <<"s","e","n","i","o","r"," ","c","o","n","s","u","l","t","a","n","t">>,
                         <<"s","e","n","i","o","r"," ","a","n","a","l","y","s","t">>, <<"s","e","n","i","o","r"," ","e","n","g","i","n","e","e","r">>, <<"s","e","n","i","o","r"," ","d","e","v","e","l","o","p","e","r">>,
                         <<"s","e","n","i","o","r"," ","a","s","s","o","c","i","a","t","e">>, <<"s","u","p","e","r","v","i","s","o","r">>, <<"a","s","s","i","s","t","a","n","t"," ","m","a","n","a","g","e","r">> >>,
         grades   |-> << <<"M","1">>, <<"L","4">>, <<"L","3">>, <<"A","4">>, <<"A","3">> >>],
        [keywords |-> << <<"a","n","a","l","y","s","t">>, <<"a","s","s","o","c","i","a","t","e">>, <<"e","n","g","i","n","e","e","r">>, <<"d","e","v","e","l","o","p","e","r">>, <<"c","o","n","s","u","l","t","a","n","t">>,
                         <<"e","x","e","c","u","t","i","v","e">>, <<"t","r","a","i","n","e","e">>, <<"i","n","t","e","r","n">>, <<"g","r","a","d","u","a","t","e">>, <<"f","r","e","s","h","e","r">> >>,
         grades   |-> << <<"A","2">>, <<"A","1">>, <<"L","2">>, <<"L","1">>, <<"T","1">>, <<"T","2">> >> ] >>

\* tier_config.get("keywords", []) of self.tier_mapping.get(tier, {})
TierKeywords(mapping, tier) == Get(Get(mapping, tier, EmptyDict), "keywords", <<>>)

\* tier_config.get("grades", []) of self.tier_mapping.get(tier, {})
TierGrades(mapping, tier) == Get(Get(mapping, tier, EmptyDict), "grades", <<>>)

\* faulty variant: the inner loop gives up after the first keyword of the tier
KeywordHitFirstOnly(mapping, tier, title_lower) ==
    LET kws == TierKeywords(mapping, tier)
    IN  Len(kws) >= 1 /\ contains(title_lower, kws[1])

\* the inner loop: some keyword of the tier is a substring of title_lower
KeywordHit(mapping, tier, title_lower) ==
    LET kws == TierKeywords(mapping, tier)
    IN  \E k \in 1..Len(kws) : contains(title_lower, kws[k])

\* grade_upper in tier_config.get("grades", [])
GradeHit(mapping, tier, grade_upper) == InList(grade_upper, TierGrades(mapping, tier))

\* faulty variant: the tiers are tried from 6 down to 1, so the last match wins
RECURSIVE TierLoopDescending(_, _, _, _)
TierLoopDescending(mapping, title_lower, grade_upper, tier) ==
    IF tier >= 7 THEN 0
    ELSE LET later == TierLoopDescending(mapping, title_lower, grade_upper, tier + 1)
         IN  IF later /= 0 THEN later
             ELSE IF KeywordHit(mapping, tier, title_lower) THEN tier
             ELSE IF GradeHit(mapping, tier, grade_upper) THEN tier
             ELSE 0

\* faulty variant: an unclassifiable input is force-assigned the entry tier
RECURSIVE TierLoopDefaultEntry(_, _, _, _)
TierLoopDefaultEntry(mapping, title_lower, grade_upper, tier) ==
    IF tier >= 7 THEN 6
    ELSE IF KeywordHit(mapping, tier, title_lower) THEN tier
    ELSE IF GradeHit(mapping, tier, grade_upper) THEN tier
    ELSE TierLoopDefaultEntry(mapping, title_lower, grade_upper, tier + 1)

\* range(1, 7) from `tier` on
\* faulty variant: the keywords of all six tiers are tried before any grade
TierLoopKeywordsFirst(mapping, title_lower, grade_upper, tier) ==
    LET kw == {t \in tier..6 : KeywordHit(mapping, t, title_lower)}
        gr == {t \in tier..6 : GradeHit(mapping, t, grade_upper)}
    IN  IF kw /= {} THEN CHOOSE t \in kw : \A u \in kw : t <= u
        ELSE IF gr /= {} THEN CHOOSE t \in gr : \A u \in gr : t <= u
        ELSE 0

RECURSIVE TierLoop(_, _, _, _)
TierLoop(mapping, title_lower, grade_upper, tier) ==
    IF tier >= 7 THEN 0
    ELSE IF KeywordHit(mapping, tier, title_lower) THEN tier
    ELSE IF GradeHit(mapping, tier, grade_upper) THEN tier
    ELSE TierLoop(mapping, title_lower, grade_upper, tier + 1)

classify_tier(mapping, t, g) ==
    TierLoop(mapping, lower(Or(t, <<>>)), upper(Or(g, <<>>)), 1)

(***************************************************************************)
(* linkedin_collector.py: classify_title                                   *)
(***************************************************************************)
TitleTierKeywords ==
    <<  << <<"i","n","d","e","p","e","n","d","e","n","t"," ","d","i","r","e","c","t","o","r">>, <<"n","o","n","-","e","x","e","c","u","t","i","v","e"," ","d","i","r","e","c","t","o","r">>, <<"b","o","a","r","d"," ","m","e","m","b","e","r">>,
           <<"b","o","a","r","d"," ","o","f"," ","d","i","r","e","c","t","o","r">>, <<" ","c","h","a","i","r","m","a","n"," ">>, <<"c","h","a","i","r","p","e","r","s","o","n">>, <<"c","h","a","i","r","w","o","m","a","n">> >>,
        << <<"c","h","i","e","f"," ","e","x","e","c","u","t","i","v","e">>, <<"c","h","i","e","f"," ","f","i","n","a","n","c","i","a","l">>, <<"c","h","i","e","f"," ","t","e","c","h","n","o","l","o","g","y">>,
           <<"c","h","i","e","f"," ","o","p","e","r","a","t","i","n","g">>, <<"c","h","i","e","f"," ","m","a","r","k","e","t","i","n","g">>, <<"c","h","i","e","f"," ","i","n","f","o","r","m","a","t","i","o","n">>,
           <<"c","h","i","e","f"," ","h","u","m","a","n">>, <<"c","h","i","e","f"," ","p","e","o","p","l","e">>, <<"c","h","i","e","f"," ","p","r","o","d","u","c","t">>, <<"c","h","i","e","f"," ","r","e","v","e","n","u","e">>,
           <<" ","c","e","o"," ">>, <<" ","c","f","o"," ">>, <<" ","c","t","o"," ">>, <<" ","c","o","o"," ">>, <<" ","c","m","o"," ">>, <<" ","c","i","o"," ">>, <<" ","c","h","r","o"," ">>, <<" ","c","p","o"," ">>,
           <<"m","a","n","a","g","i","n","g"," ","d","i","r","e","c","t","o","r">>, <<" ","p","r","e","s","i","d","e","n","t"," ">>, <<" ","f","o","u","n","d","e","r">>, <<"c","o","-","f","o","u","n","d","e","r">> >>,
        << <<"e","x","e","c","u","t","i","v","e"," ","v","i","c","e"," ","p","r","e","s","i","d","e","n","t">>, <<"s","e","n","i","o","r"," ","v","i","c","e"," ","p","r","e","s","i","d","e","n","t">>, <<"v","i","c","e"," ","p","r","e","s","i","d","e","n","t">>,
           <<" ","e","v","p"," ">>, <<" ","s","v","p"," ">>, <<" ","v","p"," ">>, <<" ","v","p",",">>, <<",","v","p"," ">>, <<"v","p","-">>, <<"g","e","n","e","r","a","l"," ","m","a","n","a","g","e","r">>,
           <<"g","l","o","b","a","l"," ","h","e","a","d">>, <<"c","o","u","n","t","r","y"," ","h","e","a","d">>, <<"r","e","g","i","o","n","a","l"," ","h","e","a","d">>, <<"b","u","s","i","n","e","s","s"," ","h","e","a","d">>,
           <<" ","h","e","a","d"," ","o","f"," ">>, <<" ","p","a","r","t","n","e","r"," ">> >>,
        << <<"s","e","n","i","o","r"," ","d","i","r","e","c","t","o","r">>, <<"a","s","s","o","c","i","a","t","e"," ","d","i","r","e","c","t","o","r">>, <<" ","d","i","r","e","c","t","o","r"," ">>, <<" ","d","i","r","e","c","t","o","r",",">>,
           <<"s","e","n","i","o","r"," ","m","a","n","a","g","e","r">>, <<"p","r","o","g","r","a","m"," ","m","a","n","a","g","e","r">>, <<"p","r","o","j","e","c","t"," ","m","a","n","a","g","e","r">>, <<"p","r","o","d","u","c","t"," ","m","a","n","a","g","e","r">>,
           <<"d","e","l","i","v","e","r","y"," ","m","a","n","a","g","e","r">>, <<"e","n","g","a","g","e","m","e","n","t"," ","m","a","n","a","g","e","r">>, <<"e","n","g","i","n","e","e","r","i","n","g"," ","m","a","n","a","g","e","r">>,
           <<" ","m","a","n","a","g","e","r"," ">> >>,
        << <<"t","e","a","m"," ","l","e","a","d">>, <<"t","e","c","h"," ","l","e","a","d">>, <<"l","e","a","d"," ","e","n","g","i","n","e","e","r">>, <<"l","e","a","d"," ","d","e","v","e","l","o","p","e","r">>, <<"l","e","a","d"," ","a","n","a","l","y","s","t">>,
           <<" ","s","u","p","e","r","v","i","s","o","r"," ">>, <<"s","e","n","i","o","r"," ","c","o","n","s","u","l","t","a","n","t">>, <<"s","e","n","i","o","r"," ","a","n","a","l","y","s","t">>, <<"s","e","n","i","o","r"," ","e","n","g","i","n","e","e","r">>,
           <<"s","e","n","i","o","r"," ","d","e","v","e","l","o","p","e","r">>, <<"s","e","n","i","o","r"," ","a","s","s","o","c","i","a","t","e">>, <<"s","e","n","i","o","r"," ","s","p","e","c","i","a","l","i","s","t">>,
           <<"s","e","n","i","o","r"," ","s","o","f","t","w","a","r","e"," ","e","n","g","i","n","e","e","r">>, <<"s","e","n","i","o","r"," ","s","o","f","t","w","a","r","e"," ","d","e","v","e","l","o","p","e","r">>,
           <<" ","p","r","i","n","c","i","p","a","l"," ">>, <<" ","l","e","a","d"," ">>, <<" ","s","t","a","f","f"," ","e","n","g","i","n","e","e","r">>, <<" ","s","t","a","f","f"," ","d","e","v","e","l","o","p","e","r">>,
           <<"s","e","n","i","o","r"," ">> >>,
        << <<" ","a","n","a","l","y","s","t"," ">>, <<" ","a","s","s","o","c","i","a","t","e"," ">>, <<" ","c","o","n","s","u","l","t","a","n","t"," ">>, <<" ","e","n","g","i","n","e","e","r"," ">>, <<" ","d","e","v","e","l","o","p","e","r"," ">>,
           <<" ","e","x","e","c","u","t","i","v","e"," ">>, <<" ","t","r","a","i","n","e","e"," ">>, <<" ","i","n","t","e","r","n"," ">>, <<" ","f","r","e","s","h","e","r"," ">>, <<" ","g","r","a","d","u","a","t","e"," ">>,
           <<" ","s","p","e","c","i","a","l","i","s","t"," ">> >> >>

\* title_lower = " " + title.lower() + " "
PadTitle(t) == <<" ">> \o lower(t) \o <<" ">>

\* `for kw in tier_n: if kw in title_lower`
TitleKeywordHit(tier, title_lower) ==
    \E k \in 1..Len(TitleTierKeywords[tier]) :
        contains(title_lower, TitleTierKeywords[tier][k])

\* the six keyword loops, in source order
RECURSIVE TitleLoop(_, _)
TitleLoop(title_lower, tier) ==
    IF tier > Len(TitleTierKeywords) THEN 0
    ELSE IF TitleKeywordHit(tier, title_lower) THEN tier
    ELSE TitleLoop(title_lower, tier + 1)

classify_title(t) == IF Falsy(t) THEN 0 ELSE TitleLoop(PadTitle(t), 1)

(***************************************************************************)
(* Inputs of the classifiers                                               *)
(***************************************************************************)
\* length bound of the generated titles
MaxTitleLen == 3

TitleAlphabet == {"e", "D", " "}

RECURSIVE StringsUpTo(_, _)
StringsUpTo(alphabet, n) ==
    IF n = 0 THEN {<<>>}
    ELSE LET shorter == StringsUpTo(alphabet, n - 1)
         IN  shorter \cup {Append(s, c) : s \in shorter, c \in alphabet}

SampleTitles ==
    { NoneVal, <<"C","E","O">>, <<"C","h","i","e","f"," ","E","x","e","c","u","t","i","v","e"," ","O","f","f","i","c","e","r">>, <<"I","n","d","e","p","e","n","d","e","n","t"," ","D","i","r","e","c","t","o","r">>,
      <<"S","e","n","i","o","r"," ","M","a","n","a","g","e","r">>, <<"S","e","n","i","o","r"," ","D","i","r","e","c","t","o","r">>, <<"D","i","r","e","c","t","o","r">>, <<"M","a","n","a","g","i","n","g"," ","D","i","r","e","c","t","o","r">>,
      <<"S","o","f","t","w","a","r","e"," ","E","n","g","i","n","e","e","r">>, <<"S","e","n","i","o","r"," ","S","o","f","t","w","a","r","e"," ","E","n","g","i","n","e","e","r">>, <<"X","y","z"," ","U","n","k","n","o","w","n"," ","R","o","l","e">>,
      <<"C","e","r","t","i","f","i","e","d"," ","A","n","a","l","y","s","t">>, <<"V","P"," ","E","n","g","i","n","e","e","r","i","n","g">>, <<"V","i","c","e"," ","P","r","e","s","i","d","e","n","t",","," ","S","a","l","e","s">>,
      <<"T","e","a","m"," ","L","e","a","d">>, <<"I","n","t","e","r","n">>, <<"C","h","a","i","r","p","e","r","s","o","n","s">>, <<"B","o","a","r","d"," ","M","e","m","b","e","r">>,
      <<"F","o","u","n","d","e","r"," ","a","n","d"," ","P","r","e","s","i","d","e","n","t">>, <<"C","E","O"," ","a","n","d"," ","S","e","n","i","o","r"," ","A","n","a","l","y","s","t">> }

Titles == SampleTitles \cup StringsUpTo(TitleAlphabet, MaxTitleLen)

Grades == { NoneVal, <<>>, <<"E","1">>, <<"e","1">>, <<"M","3">>, <<"m","3">>, <<"L","1","0">>, <<"A","1">>, <<"E">>, <<"Z","Z">> }

\* rule tables a caller may pass as config["tier_mapping"]
RuleTables ==
    { DEFAULT_TIER_KEYWORDS,
      \* tiers missing, keys missing
      (2 :> [keywords |-> << <<"e","d">>, <<"e"," ","d">> >>, grades |-> << <<"E","1">> >>])
        @@ (5 :> [keywords |-> << <<"e">> >>]),
      \* grade codes and keywords written in the other case
      (1 :> [grades |-> << <<"z","z">> >>])
        @@ (2 :> [keywords |-> << <<"E","d">> >>, grades |-> << <<"e","1">>, <<"M","3">> >>])
        @@ (4 :> [keywords |-> << <<"d">> >>, grades |-> << <<"E","1">> >>]),
      \* overlapping keywords in every tier
      [t \in 1..6 |-> [keywords |-> IF t % 2 = 0 THEN << <<"e">> >> ELSE << <<"d"," ","e">>, <<"d","d">> >>,
                       grades   |-> IF t = 3 THEN << <<"E","1">>, <<"A","1">> >> ELSE << >>]],
      \* one tier, its grade code written in lower case
      (2 :> [keywords |-> << >>, grades |-> << <<"e","1">> >>]),
      EmptyDict }

(***************************************************************************)
(* SpecTier: classify one (title, grade) under one rule table               *)
(***************************************************************************)
\* no gender computed yet
NoGender == "pending"

\* the variables of the other specifications, at rest
IdleTier ==
    /\ title = <<>> /\ grade = <<>> /\ tier_mapping = EmptyDict
    /\ dt_tier = 0 /\ ct_tier = 0 /\ classified = {}

IdleGender ==
    /\ value = <<>> /\ row = EmptyDict /\ field_mapping = EmptyDict
    /\ gender_values = EmptyDict
    /\ ng_gender = NoGender /\ row_gender = NoGender

IdleCollect ==
    /\ impl = "linkedin" /\ is_logged_in = FALSE /\ login_result = "none" /\ pc = "idle"
    /\ max_pages = 0 /\ page = 0 /\ fed = <<>>
    /\ tiers = [t \in 1..6 |-> [male |-> 0, female |-> 0, unknown |-> 0]]
    /\ total_profiles_analyzed = 0
    /\ raw_entries = <<>> /\ result_raw = <<>>
    /\ returned = "nothing" /\ summary = EmptyDict /\ saved = <<>>

IdleFetch ==
    /\ csv = [loaded |-> FALSE, rows |-> <<>>]
    /\ df = [loaded |-> FALSE, rows |-> <<>>] /\ active_values = <<>>
    /\ fpc = "created" /\ idx = 0 /\ employees = <<>>
    /\ tier_counts = EmptyDict /\ report = EmptyDict

IdleCount ==
    /\ bucket = [male |-> 0, female |-> 0, unknown |-> 0]
    /\ bucket_read = EmptyDict

IdleName ==
    /\ eg_name = <<>> /\ eg_gender = NoGender

InitTier ==
    /\ IdleGender /\ IdleCollect /\ IdleFetch /\ IdleCount /\ IdleName
    /\ title \in Titles
    /\ grade \in Grades
    /\ tier_mapping \in RuleTables
    /\ dt_tier = 0
    /\ ct_tier = 0
    /\ classified = {}

\* adapter.classify_tier(title, grade)
ClassifyTier ==
    /\ "classify_tier" \notin classified
    /\ dt_tier' = classify_tier(tier_mapping, title, grade)
    /\ classified' = classified \cup {"classify_tier"}
    /\ UNCHANGED <<title, grade, tier_mapping, ct_tier, genderVars, collectVars, restVars>>

\* classify_title(title)
ClassifyTitle ==
    /\ "classify_title" \notin classified
    /\ ct_tier' = classify_title(title)
    /\ classified' = classified \cup {"classify_title"}
    /\ UNCHANGED <<title, grade, tier_mapping, dt_tier, genderVars, collectVars, restVars>>

NextTier == ClassifyTier \/ ClassifyTitle

SpecTier == InitTier /\ [][NextTier]_vars

(***************************************************************************)
(* federated/data_adapter.py: gender-token normalisation                   *)
(***************************************************************************)
\* DataAdapter.normalize_gender
normalize_gender(v) ==
    IF Falsy(v) THEN "O"
    ELSE LET u == upper(strip(v))
         IN  IF InList(u, << <<"M">>, <<"M","A","L","E">>, <<"1">>, <<"M","A","N">>, <<"H","E">> >>) THEN "M"
             ELSE IF InList(u, << <<"F">>, <<"F","E","M","A","L","E">>, <<"2">>, <<"W","O","M","A","N">>, <<"S","H","E">> >>) THEN "F"
             ELSE "O"

\* the default of config.get("gender_values", ...) in CSVAdapter.__init__
DEFAULT_GENDER_VALUES ==
    [male   |-> << <<"M">>, <<"M","a","l","e">>, <<"M","A","L","E">>, <<"1">>, <<"M","a","n">> >>,
     female |-> << <<"F">>, <<"F","e","m","a","l","e">>, <<"F","E","M","A","L","E">>, <<"2">>, <<"W","o","m","a","n">> >>]

\* faulty variant: a value in neither list is counted as male
map_gender_default_male(values, v) ==
    IF InList(strip(v), Get(values, "female", <<>>)) THEN "F" ELSE "M"

\* CSVAdapter._map_gender
map_gender(values, v) ==
    LET s == strip(v)
    IN  IF InList(s, Get(values, "male", <<>>)) THEN "M"
        ELSE IF InList(s, Get(values, "female", <<>>)) THEN "F"
        ELSE "O"

\* an empty cell of the data frame (pandas reads it as NaN)
NaNVal == <<"NaN">>

\* str(x) of a cell
Str(x) ==
    IF x = NaNVal THEN <<"n","a","n">>
    ELSE IF x = NoneVal THEN <<"N","o","n","e">>
    ELSE x

\* faulty variant: a column the row does not have reads as an empty cell
RawFieldAbsentAsNaN(mapping, r, field) ==
    IF field \in DOMAIN mapping THEN Str(Get(r, mapping[field], NaNVal)) ELSE <<>>

\* str(row.get(col, "")) if col else "", col = self.field_mapping.get(field)
RawField(mapping, r, field) ==
    IF field \in DOMAIN mapping THEN Str(Get(r, mapping[field], <<>>)) ELSE <<>>

(***************************************************************************)
(* SpecGender: normalise one raw gender value                               *)
(***************************************************************************)
\* length bound of the generated gender values
MaxTokenLen == 2

TokenAlphabet == {"m", "F", " "}

SampleGenderValues ==
    { <<"M">>, <<"M","a","l","e">>, <<"M","A","L","E">>, <<"m","a","l","e">>, <<" ","m","a","l","e"," ">>, <<"m","A","l","E">>, <<"1">>, <<"M","a","n">>, <<"m","a","n">>, <<"H","E">>, <<"h","e">>,
      <<"F","e","m","a","l","e">>, <<"F","E","M","A","L","E">>, <<"f","e","m","a","l","e">>, <<"f","\n">>, <<"2">>, <<"W","o","m","a","n">>, <<"W","O","M","A","N">>, <<"S","h","e">>,
      <<"X">>, <<"O","t","h","e","r">>, <<"n","a","n">>, <<"1","2">>, <<"\t">> }

GenderInputs == SampleGenderValues \cup StringsUpTo(TokenAlphabet, MaxTokenLen)

GenderConfigs ==
    { DEFAULT_GENDER_VALUES,
      \* the lists create_config_wizard writes
      [male |-> << <<"M">>, <<"M","a","l","e">>, <<"M","A","L","E">>, <<"1">> >>, female |-> << <<"F">>, <<"F","e","m","a","l","e">>, <<"F","E","M","A","L","E">>, <<"2">> >>],
      \* caller-supplied tokens in lower case, and a list left out
      [male |-> << <<"m">>, <<"h","e">> >>],
      [female |-> << <<"f">>, <<"M","m">> >>, male |-> << <<"H">>, <<"M","m">> >>],
      EmptyDict }

InitGender ==
    /\ IdleTier /\ IdleCollect /\ IdleFetch /\ IdleCount /\ IdleName
    /\ value \in GenderInputs \cup {NoneVal}
    /\ row \in {EmptyDict} \cup
               (IF value = NoneVal THEN {[sex |-> NaNVal]} ELSE {[sex |-> value]})
    /\ field_mapping \in {EmptyDict, [gender |-> "sex"], [title |-> "designation"]}
    /\ gender_values \in GenderConfigs
    /\ ng_gender = NoGender
    /\ row_gender = NoGender

\* adapter.normalize_gender(value)
NormalizeGender ==
    /\ ng_gender = NoGender
    /\ ng_gender' = normalize_gender(value)
    /\ UNCHANGED <<value, row, field_mapping, gender_values, row_gender, tierVars, collectVars, restVars>>

\* CSVAdapter.fetch_employees, the gender of one row
MapRowGender ==
    /\ row_gender = NoGender
    /\ row_gender' = map_gender(gender_values, RawField(field_mapping, row, "gender"))
    /\ UNCHANGED <<value, row, field_mapping, gender_values, ng_gender, tierVars, collectVars, restVars>>

NextGender == NormalizeGender \/ MapRowGender

SpecGender == InitGender /\ [][NextGender]_vars

\* the raw value _map_gender is given for the row
RowRaw == RawField(field_mapping, row, "gender")

\* `tokens` holds a token equal to v once both are trimmed and upper-cased
FoldMatch(v, tokens) == \E k \in 1..Len(tokens) : upper(strip(tokens[k])) = upper(strip(v))

HardMale == << <<"M">>, <<"M","A","L","E">>, <<"1">>, <<"M","A","N">>, <<"H","E">> >>
HardFemale == << <<"F">>, <<"F","E","M","A","L","E">>, <<"2">>, <<"W","O","M","A","N">>, <<"S","H","E">> >>

\* C9: gender-token normalisation is total: normalize_gender (also for None and
\* for empty or blank input) and _map_gender (also for a missing or empty cell)
\* return one of M, F, O, and a value that matches no accepted male or female
\* token, however its case is folded, returns O.
C9_GenderTotal ==
    /\ ng_gender /= NoGender =>
        /\ ng_gender \in {"M", "F", "O"}
        /\ (~FoldMatch(Or(value, <<>>), HardMale \o HardFemale)) => ng_gender = "O"
    /\ row_gender /= NoGender =>
        /\ row_gender \in {"M", "F", "O"}
        /\ (~FoldMatch(RowRaw, Get(gender_values, "male", <<>>)
                               \o Get(gender_values, "female", <<>>))) => row_gender = "O"

\* a missing value and a row without the mapped gender column have both been
\* normalised to O
C9_Witness ==
    /\ value = NoneVal /\ ng_gender = "O"
    /\ "gender" \in DOMAIN field_mapping /\ row = EmptyDict /\ row_gender = "O"
    /\ gender_values = DEFAULT_GENDER_VALUES

\* C10: the input is trimmed and upper-cased before matching: every case variant
\* of an accepted male (female) token, with or without surrounding whitespace,
\* normalises to M (F), in normalize_gender and on the path of fetch_employees.
C10_CaseFoldedTokens ==
    /\ ng_gender /= NoGender =>
        /\ FoldMatch(Or(value, <<>>), HardMale) => ng_gender = "M"
        /\ (FoldMatch(Or(value, <<>>), HardFemale) /\ ~FoldMatch(Or(value, <<>>), HardMale))
              => ng_gender = "F"
    /\ row_gender /= NoGender =>
        /\ FoldMatch(RowRaw, Get(gender_values, "male", <<>>)) => row_gender = "M"
        /\ (FoldMatch(RowRaw, Get(gender_values, "female", <<>>))
              /\ ~FoldMatch(RowRaw, Get(gender_values, "male", <<>>))) => row_gender = "F"

(***************************************************************************)
(* linkedin_collector.py: estimate_gender                                  *)
(***************************************************************************)
FemaleNames ==
    { <<"p","r","i","y","a">>, <<"n","e","h","a">>, <<"p","o","o","j","a">>, <<"a","n","j","a","l","i">>, <<"d","i","v","y","a">>,
      <<"s","w","a","t","i">>, <<"k","a","v","i","t","a">>, <<"s","u","n","i","t","a">>, <<"m","e","e","r","a">>, <<"a","n","i","t","a">>,
      <<"d","e","e","p","i","k","a">>, <<"s","h","r","e","y","a">>, <<"n","i","s","h","a">>, <<"r","e","k","h","a">>, <<"g","e","e","t","a">>,
      <<"s","h","a","l","i","n","i">>, <<"p","r","e","e","t","i">>, <<"m","a","n","i","s","h","a">>, <<"r","a","s","h","m","i">>, <<"s","m","i","t","a">>,
      <<"a","r","c","h","a","n","a">>, <<"s","h","w","e","t","a">>, <<"p","a","l","l","a","v","i">>, <<"j","y","o","t","i">>, <<"r","i","t","u">>,
      <<"a","a","r","t","i">>, <<"s","n","e","h","a">>, <<"b","h","a","v","n","a">>, <<"g","a","r","i","m","a">>, <<"k","r","i","t","i">>,
      <<"a","d","i","t","i">>, <<"a","i","s","h","w","a","r","y","a">>, <<"a","n","a","n","y","a">>, <<"d","i","y","a">>, <<"i","s","h","a">>,
      <<"k","i","a","r","a">>, <<"m","i","r","a">>, <<"n","a","n","d","i","n","i">>, <<"r","i","y","a">>, <<"s","a","a","n","v","i">>,
      <<"t","a","n","v","i">>, <<"v","e","d","i","k","a">>, <<"z","a","r","a">>, <<"a","n","i","k","a">>, <<"a","v","n","i">> }

MaleNames ==
    { <<"r","a","h","u","l">>, <<"a","m","i","t">>, <<"r","a","j">>, <<"s","u","r","e","s","h">>, <<"r","a","j","e","s","h">>,
      <<"v","i","j","a","y">>, <<"a","j","a","y">>, <<"s","a","n","j","a","y">>, <<"d","e","e","p","a","k">>, <<"m","a","n","o","j">>,
      <<"a","r","u","n">>, <<"k","u","m","a","r">>, <<"r","a","v","i">>, <<"s","a","n","d","e","e","p">>, <<"v","i","k","r","a","m">>,
      <<"a","s","h","o","k">>, <<"r","a","m","e","s","h">>, <<"m","u","k","e","s","h">>, <<"d","i","n","e","s","h">>, <<"n","a","r","e","s","h">>,
      <<"r","o","h","i","t">>, <<"n","i","k","h","i","l">>, <<"v","a","r","u","n">>, <<"k","a","r","a","n">>, <<"a","r","j","u","n">>,
      <<"a","a","r","a","v">>, <<"a","d","v","a","i","t">>, <<"a","r","n","a","v">>, <<"d","e","v">>, <<"h","a","r","s","h">>,
      <<"i","s","h","a","a","n">>, <<"k","a","b","i","r">>, <<"k","r","i","s","h","n","a">>, <<"m","o","h","i","t">>, <<"p","r","a","n","a","v">>,
      <<"r","e","y","a","n","s","h">>, <<"s","i","d","d","h","a","r","t","h">>, <<"v","e","e","r">>, <<"y","a","s","h">>, <<"a","d","i","t","y","a">>,
      <<"a","k","a","s","h">>, <<"a","n","k","i","t">>, <<"g","a","u","r","a","v">>, <<"h","i","m","a","n","s","h","u">>, <<"m","a","n","i","s","h">> }

\* INDIAN_NAMES_GENDER[name]
LexiconGender(name) == IF name \in FemaleNames THEN "F" ELSE "M"

female_endings == << <<"a">>, <<"i">>, <<"e","e">>, <<"t","i">>, <<"n","i">>, <<"y","a">>, <<"k","a">>, <<"n","a">>, <<"r","i">> >>
male_endings == << <<"s","h">>, <<"r","a","j">>, <<"d","e","e","p">>, <<"k","u","m","a","r">>, <<"e","s","h">>, <<"a","n">>, <<"a","v">> >>

\* str.endswith
endswith(s, suffix) ==
    /\ Len(suffix) <= Len(s)
    /\ SubSeq(s, Len(s) - Len(suffix) + 1, Len(s)) = suffix

\* faulty variant: the lexicon and the endings are matched without lower-casing
estimate_gender_case_sensitive(first_name) ==
    IF Falsy(first_name) THEN "U"
    ELSE LET name == strip(first_name)
         IN  IF name \in FemaleNames \cup MaleNames THEN LexiconGender(name)
             ELSE IF \E k \in 1..Len(female_endings) :
                         endswith(name, female_endings[k]) /\ Len(name) > 3 THEN "F"
             ELSE IF \E k \in 1..Len(male_endings) : endswith(name, male_endings[k]) THEN "M"
             ELSE "U"

\* faulty variant: the endings are tried before the lexicon
estimate_gender_suffix_first(first_name) ==
    IF Falsy(first_name) THEN "U"
    ELSE LET name == strip(lower(first_name))
         IN  IF \E k \in 1..Len(female_endings) :
                         endswith(name, female_endings[k]) /\ Len(name) > 3 THEN "F"
             ELSE IF \E k \in 1..Len(male_endings) : endswith(name, male_endings[k]) THEN "M"
             ELSE IF name \in FemaleNames \cup MaleNames THEN LexiconGender(name)
             ELSE "U"

\* faulty variant: the two lists of endings return each other's gender
estimate_gender_endings_swapped(first_name) ==
    IF Falsy(first_name) THEN "U"
    ELSE LET name == strip(lower(first_name))
         IN  IF name \in FemaleNames \cup MaleNames THEN LexiconGender(name)
             ELSE IF \E k \in 1..Len(female_endings) :
                         endswith(name, female_endings[k]) /\ Len(name) > 3 THEN "M"
             ELSE IF \E k \in 1..Len(male_endings) : endswith(name, male_endings[k]) THEN "F"
             ELSE "U"

\* estimate_gender(first_name)
estimate_gender(first_name) ==
    IF Falsy(first_name) THEN "U"
    ELSE LET name == strip(lower(first_name))
         IN  IF name \in FemaleNames \cup MaleNames THEN LexiconGender(name)
             ELSE IF \E k \in 1..Len(female_endings) :
                         endswith(name, female_endings[k]) /\ Len(name) > 3 THEN "F"
             ELSE IF \E k \in 1..Len(male_endings) : endswith(name, male_endings[k]) THEN "M"
             ELSE "U"

(***************************************************************************)
(* linkedin_collector.py (both copies): the aggregate and the card loop     *)
(***************************************************************************)
GenderKeys == {"male", "female", "unknown"}

\* AggregateCount()
EmptyCount == [male |-> 0, female |-> 0, unknown |-> 0]

\* CompanyResearchData.__post_init__: one AggregateCount per tier
EmptyTiers == [t \in 1..6 |-> EmptyCount]

\* AggregateCount.total
total(count) == count.male + count.female + count.unknown

\* round(x, 1) of the quotient num/den, in tenths (ties to even)
RoundTenths(num, den) ==
    LET q == (num * 10) \div den
        r == (num * 10) % den
    IN  IF 2 * r < den THEN q
        ELSE IF 2 * r > den THEN q + 1
        ELSE IF q % 2 = 0 THEN q ELSE q + 1

\* faulty variant: the percentage is taken of the whole bucket, unknown included
female_pct_of_total(count) ==
    IF total(count) > 0 THEN RoundTenths(count.female * 100, total(count)) ELSE 0

\* AggregateCount.female_pct, in tenths of a percent
female_pct(count) ==
    LET known == count.male + count.female
    IN  IF known > 0 THEN RoundTenths(count.female * 100, known) ELSE 0

\* the counter `if gender == "M" ... elif gender == "F" ... else` picks
GenderKey(gender) ==
    IF gender = "M" THEN "male" ELSE IF gender = "F" THEN "female" ELSE "unknown"

\* faulty variant: the six tiers share one AggregateCount object
IncrementShared(counts, tier, gender) ==
    IF tier \in 1..6
    THEN [t \in 1..6 |-> [counts[t] EXCEPT ![GenderKey(gender)] = @ + 1]]
    ELSE counts

\* faulty variant: the increment starts the tier's bucket afresh, so the
\* tier's other two counters fall back to 0
IncrementFreshBucket(counts, tier, gender) ==
    IF tier \in 1..6
    THEN [counts EXCEPT ![tier] =
             [EmptyCount EXCEPT ![GenderKey(gender)] = counts[tier][GenderKey(gender)] + 1]]
    ELSE counts

\* `if tier in tier_map: ... += 1`
Increment(counts, tier, gender) ==
    IF tier \in 1..6
    THEN [counts EXCEPT ![tier][GenderKey(gender)] = @ + 1]
    ELSE counts

\* faulty variant: only a classified profile is counted
CountClassifiedOnly(n, tier) == IF tier \in 1..6 THEN n + 1 ELSE n

\* result.total_profiles_analyzed += 1
CountProfile(n, tier) == n + 1

\* text.split('\n')[0]
FirstLine(text) ==
    LET breaks == {i \in 1..Len(text) : text[i] = "\n"}
    IN  IF breaks = {} THEN text
        ELSE SubSeq(text, 1, (CHOOSE i \in breaks : \A j \in breaks : i <= j) - 1)

\* name.split()[0] of a stripped, non-empty name
FirstWord(name) ==
    LET gaps == {i \in 1..Len(name) : name[i] \in Whitespace}
    IN  IF gaps = {} THEN name
        ELSE SubSeq(name, 1, (CHOOSE i \in gaps : \A j \in gaps : i <= j) - 1)

\* name = name_elem.text.split('\n')[0].strip(); "" when no selector finds it
CardName(card) == IF card.name = NoneVal THEN <<>> ELSE strip(FirstLine(card.name))

\* title = title_elem.text.strip(); "" when no selector finds it
CardTitle(card) == IF card.title = NoneVal THEN <<>> ELSE strip(card.title)

\* first_name = name.split()[0] if name else ""
FirstName(card) == IF CardName(card) = <<>> THEN <<>> ELSE FirstWord(CardName(card))

\* whether the body of the card loop reaches the counters: in linkedin a
\* find_element that raises skips the card, in equiverse a card without a
\* usable name is skipped by `continue`
Reaches(kind, card) ==
    IF kind = "linkedin"
    THEN card.name /= NoneVal /\ card.title /= NoneVal
    ELSE ~( \/ CardName(card) = <<>>
            \/ contains(lower(CardName(card)), <<"l","i","n","k","e","d","i","n"," ","m","e","m","b","e","r">>)
            \/ Len(CardName(card)) < 2 )

tier_name == <<"Board", "C-Suite", "Senior", "Middle", "Junior", "Entry">>

TierName(tier) == IF tier = 0 THEN "Unknown" ELSE tier_name[tier]

\* the entry the equiverse collector appends to raw_entries
RawEntry(card) ==
    [first_initial |-> FirstName(card)[1],
     gender        |-> estimate_gender(FirstName(card)),
     tier          |-> classify_title(CardTitle(card)),
     tier_name     |-> TierName(classify_title(CardTitle(card))),
     title         |-> CardTitle(card)]

(***************************************************************************)
(* Spec: one run of run_collection                                          *)
(***************************************************************************)
\* the cards one run may be fed
MaxCards == 3

\* the largest max_pages
MaxPages == 2

CardPool ==
    { [name |-> <<"P","r","i","y","a"," ","S","h","a","r","m","a">>,    title |-> <<"C","E","O">>],
      [name |-> <<"R","a","h","u","l"," ","V","e","r","m","a","\n","2","n","d">>, title |-> <<"S","o","f","t","w","a","r","e"," ","E","n","g","i","n","e","e","r">>],
      [name |-> <<"X","y","z","z","y"," ","Q">>,         title |-> <<"S","e","n","i","o","r"," ","M","a","n","a","g","e","r">>],
      [name |-> <<"R","a","h","u","l"," ","V","e","r","m","a">>,     title |-> <<"X","y","z"," ","U","n","k","n","o","w","n"," ","R","o","l","e">>],
      [name |-> NoneVal,            title |-> <<"C","E","O">>],
      [name |-> <<"P","r","i","y","a"," ","S","h","a","r","m","a">>,    title |-> NoneVal],
      [name |-> <<"L","i","n","k","e","d","I","n"," ","M","e","m","b","e","r">>, title |-> <<"I","n","t","e","r","n">>] }

\* gender and tier of every card of the pool, as the loop body computes them
Classified ==
    [card \in CardPool |->
        [gender |-> estimate_gender(FirstName(card)),
         tier   |-> classify_title(CardTitle(card)),
         entry  |-> IF FirstName(card) = <<>> THEN EmptyDict ELSE RawEntry(card)]]

\* whether the loop body reaches the counters, for every card of the pool
CardReaches ==
    [kind \in {"linkedin", "equiverse"} |-> [card \in CardPool |-> Reaches(kind, card)]]

Init ==
    /\ IdleTier /\ IdleGender /\ IdleFetch /\ IdleCount /\ IdleName
    /\ impl \in {"linkedin", "equiverse"}
    /\ is_logged_in = FALSE
    /\ login_result = "none"
    /\ pc = "idle"
    /\ max_pages \in 1..MaxPages
    /\ page = 0
    /\ fed = <<>>
    /\ tiers = EmptyTiers
    /\ total_profiles_analyzed = 0
    /\ raw_entries = <<>>
    /\ result_raw = <<>>
    /\ returned = "nothing"
    /\ summary = EmptyDict
    /\ saved = <<>>

\* faulty variant: the flag is set before the landing page is looked at
LoginSettingFlagFirst(success) ==
    /\ pc = "idle"
    /\ is_logged_in' = TRUE
    /\ login_result' = IF success THEN "ok" ELSE "failed"
    /\ UNCHANGED <<impl, pc, max_pages, page, fed, tiers, total_profiles_analyzed,
                   raw_entries, result_raw, returned, saved,
                   summary, tierVars, genderVars, restVars>>

\* collector.login(email, password): is_logged_in is set when the login
\* succeeds and left as it is when it fails
Login(success) ==
    /\ pc = "idle"
    /\ is_logged_in' = (success \/ is_logged_in)
    /\ login_result' = IF success THEN "ok" ELSE "failed"
    /\ UNCHANGED <<impl, pc, max_pages, page, fed, tiers, total_profiles_analyzed,
                   raw_entries, result_raw, returned, saved,
                   summary, tierVars, genderVars, restVars>>

\* search_company_employees while not logged in: return None
SearchNotLoggedIn ==
    /\ pc = "idle" /\ ~is_logged_in
    /\ pc' = "returned"
    /\ returned' = "None"
    /\ UNCHANGED <<impl, is_logged_in, login_result, max_pages, page, fed, tiers,
                   total_profiles_analyzed, raw_entries, result_raw, saved,
                   summary, tierVars, genderVars, restVars>>

\* search_company_employees: result = CompanyResearchData(...), first page
SearchStart ==
    /\ pc = "idle" /\ is_logged_in
    /\ pc' = "page"
    /\ tiers' = EmptyTiers
    /\ total_profiles_analyzed' = 0
    /\ raw_entries' = <<>>
    /\ page' = 0
    /\ UNCHANGED <<impl, is_logged_in, login_result, max_pages, fed, result_raw, returned, saved,
                   summary, tierVars, genderVars, restVars>>

\* the page shows profile cards: enter `for card in profile_cards`
LoadPage ==
    /\ pc = "page"
    /\ pc' = "cards"
    /\ UNCHANGED <<impl, is_logged_in, login_result, max_pages, page, fed, tiers,
                   total_profiles_analyzed, raw_entries, result_raw, returned, saved,
                   summary, tierVars, genderVars, restVars>>

\* faulty variant: the try block encloses the card loop, so a card that raises
\* ends the search
ProcessCardAborting(card) ==
    /\ pc = "cards"
    /\ Len(fed) < MaxCards
    /\ fed' = Append(fed, card)
    /\ IF Reaches(impl, card)
       THEN /\ raw_entries' = IF impl = "equiverse"
                              THEN Append(raw_entries, Classified[card].entry)
                              ELSE raw_entries
            /\ tiers' = Increment(tiers, Classified[card].tier, Classified[card].gender)
            /\ total_profiles_analyzed' =
                   CountProfile(total_profiles_analyzed, Classified[card].tier)
            /\ UNCHANGED <<pc, returned>>
       ELSE /\ pc' = "returned"
            /\ returned' = "data"
            /\ UNCHANGED <<raw_entries, tiers, total_profiles_analyzed>>
    /\ UNCHANGED <<impl, is_logged_in, login_result, max_pages, page, result_raw, saved,
                   summary, tierVars, genderVars, restVars>>

\* one pass of `for card in profile_cards`
ProcessCard(card) ==
    /\ pc = "cards"
    /\ Len(fed) < MaxCards
    /\ fed' = Append(fed, card)
    /\ IF Reaches(impl, card)
       THEN /\ raw_entries' = IF impl = "equiverse"
                              THEN Append(raw_entries, Classified[card].entry)
                              ELSE raw_entries
            /\ tiers' = Increment(tiers, Classified[card].tier, Classified[card].gender)
            /\ total_profiles_analyzed' =
                   CountProfile(total_profiles_analyzed, Classified[card].tier)
       ELSE UNCHANGED <<raw_entries, tiers, total_profiles_analyzed>>
    /\ UNCHANGED <<impl, is_logged_in, login_result, pc, max_pages, page, result_raw, returned, saved,
                   summary, tierVars, genderVars, restVars>>

\* the Next button is enabled: the following page
NextPage ==
    /\ pc = "cards"
    /\ page + 1 < max_pages
    /\ page' = page + 1
    /\ pc' = "page"
    /\ UNCHANGED <<impl, is_logged_in, login_result, max_pages, fed, tiers,
                   total_profiles_analyzed, raw_entries, result_raw, returned, saved,
                   summary, tierVars, genderVars, restVars>>

\* faulty variant: the result is handed out while the card loop is still running
ReturnWhileCollecting ==
    /\ pc \in {"page", "cards"}
    /\ returned = "nothing"
    /\ returned' = "data"
    /\ result_raw' = IF impl = "equiverse" THEN raw_entries ELSE result_raw
    /\ UNCHANGED <<impl, is_logged_in, login_result, pc, max_pages, page, fed, tiers,
                   total_profiles_analyzed, raw_entries, saved,
                   summary, tierVars, genderVars, restVars>>

\* the page loop ends (no cards found, no further page, or the last page done):
\* (equiverse) result._raw_entries = raw_entries; return result
Return ==
    /\ pc \in {"page", "cards"}
    /\ pc' = "returned"
    /\ returned' = "data"
    /\ result_raw' = IF impl = "equiverse" THEN raw_entries ELSE result_raw
    /\ UNCHANGED <<impl, is_logged_in, login_result, max_pages, page, fed, tiers,
                   total_profiles_analyzed, raw_entries, saved,
                   summary, tierVars, genderVars, restVars>>

\* the driver raises at the start of a page: `except Exception: return result`
SearchFails ==
    /\ pc = "page"
    /\ pc' = "returned"
    /\ returned' = "data"
    /\ UNCHANGED <<impl, is_logged_in, login_result, max_pages, page, fed, tiers,
                   total_profiles_analyzed, raw_entries, result_raw, saved,
                   summary, tierVars, genderVars, restVars>>

\* "tiers" of the JSON file: asdict of each AggregateCount
JsonFile ==
    [kind   |-> "json",
     total_profiles_analyzed |-> total_profiles_analyzed,
     rows   |-> [t \in 1..6 |-> tiers[t]]]

\* the tier names of the `tiers` list of save_research_data
CsvTierNames ==
    <<"Board", "C-Suite", "Senior Management", "Middle Management",
      "Junior Management", "Entry Level">>

\* the per-tier CSV file of the equiverse collector
CsvFile ==
    [kind |-> "csv",
     rows |-> [t \in 1..6 |->
                 [Tier |-> t, Tier_Name |-> CsvTierNames[t],
                  Male |-> tiers[t].male, Female |-> tiers[t].female,
                  Unknown |-> tiers[t].unknown, Total |-> total(tiers[t]),
                  Female_Pct |-> female_pct(tiers[t])]]]

\* the detailed CSV file of the equiverse collector: one row per raw entry
DetailedFile == [kind |-> "detailed_csv", rows |-> result_raw]

\* the table print_research_summary prints (female_pct in tenths of a percent)
SummaryTable ==
    [total_profiles_analyzed |-> total_profiles_analyzed,
     rows |-> [t \in 1..6 |->
                 [male |-> tiers[t].male, female |-> tiers[t].female,
                  unknown |-> tiers[t].unknown, female_pct |-> female_pct(tiers[t])]]]

\* faulty variant: printing the summary drains the counters
PrintSummaryDraining ==
    /\ pc = "returned" /\ returned = "data"
    /\ pc' = "printed"
    /\ summary' = SummaryTable
    /\ tiers' = EmptyTiers
    /\ total_profiles_analyzed' = 0
    /\ UNCHANGED <<impl, is_logged_in, login_result, max_pages, page, fed,
                   raw_entries, result_raw, returned, saved,
                   tierVars, genderVars, restVars>>

\* run_collection: `if data:` print_research_summary(data)
PrintSummary ==
    /\ pc = "returned" /\ returned = "data"
    /\ pc' = "printed"
    /\ summary' = SummaryTable
    /\ UNCHANGED <<impl, is_logged_in, login_result, max_pages, page, fed, tiers,
                   total_profiles_analyzed, raw_entries, result_raw, returned, saved,
                   tierVars, genderVars, restVars>>

\* run_collection: save_research_data(data)
Save ==
    /\ pc = "printed"
    /\ pc' = "saved"
    /\ saved' = IF impl = "linkedin" THEN << JsonFile >>
                ELSE IF result_raw /= <<>> THEN << JsonFile, CsvFile, DetailedFile >>
                ELSE << JsonFile, CsvFile >>
    /\ UNCHANGED <<impl, is_logged_in, login_result, max_pages, page, fed, tiers,
                   total_profiles_analyzed, raw_entries, result_raw, returned,
                   summary, tierVars, genderVars, restVars>>

Next ==
    \/ \E success \in BOOLEAN : Login(success)
    \/ SearchNotLoggedIn
    \/ SearchStart
    \/ LoadPage
    \/ \E card \in CardPool : ProcessCard(card)
    \/ NextPage
    \/ Return
    \/ SearchFails
    \/ PrintSummary
    \/ Save

Spec == Init /\ [][Next]_vars

(***************************************************************************)
(* data_adapter.py: CSVAdapter.fetch_employees and the tier distribution   *)
(* the module's demo computes from its records                              *)
(***************************************************************************)
\* self.df = None, and a file_path at which no file exists
NoFrame == [loaded |-> FALSE, rows |-> <<>>]

\* the data frame pd.read_csv builds: one row per line, the same columns in each
Frame(rows) == [loaded |-> TRUE, rows |-> rows]

\* a file that exists with these lines but on which pd.read_csv raises
Unreadable(rows) == [loaded |-> FALSE, rows |-> rows]

\* the default of config.get("active_values", ...)
DEFAULT_ACTIVE_VALUES ==
    << <<"A","c","t","i","v","e">>, <<"A","C","T","I","V","E">>, <<"1">>, <<"Y">>, <<"Y","e","s">>, <<"T","R","U","E">>, <<"C","u","r","r","e","n","t">> >>

\* faulty variant: the status test is inverted
IsActiveInverted(mapping, actives, r) ==
    IF "status" \in DOMAIN mapping
    THEN ~InList(Str(Get(r, mapping["status"], <<>>)), actives)
    ELSE TRUE

\* is_active of one row
IsActive(mapping, actives, r) ==
    IF "status" \in DOMAIN mapping
    THEN InList(Str(Get(r, mapping["status"], <<>>)), actives)
    ELSE TRUE

\* dept = str(row.get(dept_col, "")) if dept_col else None
DeptField(mapping, r) ==
    IF "department" \in DOMAIN mapping
    THEN Str(Get(r, mapping["department"], <<>>))
    ELSE NoneVal

\* tier = self.classify_tier(title, grade) of one row
ClassifyRow(table, mapping, r) ==
    classify_tier(table, RawField(mapping, r, "title"), RawField(mapping, r, "grade"))

\* rows of a file with the columns title, gender
DirectRows ==
    { [title |-> <<"S","o","f","t","w","a","r","e"," ","E","n","g","i","n","e","e","r">>, gender |-> <<"F">>],
      [title |-> <<"C","E","O">>,               gender |-> <<"M">>],
      [title |-> <<"X","y","z"," ","U","n","k","n","o","w","n"," ","R","o","l","e">>,  gender |-> <<"M">>],
      [title |-> NaNVal,               gender |-> NaNVal] }

\* rows of a file with the columns of the demo's sample file
SampleRows ==
    { [name |-> <<"P","r","i","y","a"," ","S","h","a","r","m","a">>, gender |-> <<"F">>, designation |-> <<"S","e","n","i","o","r"," ","M","a","n","a","g","e","r">>,
       grade |-> <<"M","3">>, department |-> <<"E","n","g","i","n","e","e","r","i","n","g">>, status |-> <<"A","c","t","i","v","e">>],
      [name |-> <<"A","m","i","t"," ","K","u","m","a","r">>, gender |-> <<"m","a","l","e">>, designation |-> <<"C","l","e","r","k">>,
       grade |-> <<"e","1">>, department |-> <<"S","a","l","e","s">>, status |-> <<"L","e","f","t">>],
      [name |-> <<"A","s","h","a"," ","R","a","o">>, gender |-> <<" ","F"," ">>, designation |-> <<"C","l","e","r","k">>,
       grade |-> <<"z","z">>, department |-> NaNVal, status |-> <<"a","c","t","i","v","e">>],
      [name |-> <<"V","i","k","r","a","m"," ","S","i","n","g","h">>, gender |-> <<"X">>, designation |-> NaNVal,
       grade |-> NaNVal, department |-> <<"E","x","e","c","u","t","i","v","e">>, status |-> NaNVal] }

FieldMappings ==
    { \* the direct mapping
      [title |-> "title", gender |-> "gender"],
      \* the mapping of the demo
      [gender |-> "gender", title |-> "designation", grade |-> "grade",
       status |-> "status", department |-> "department"],
      \* grade and status only
      [grade |-> "grade", status |-> "status"],
      \* a mapping naming columns the file does not have
      [gender |-> "sex", title |-> "designation", grade |-> "level"],
      EmptyDict }

FetchTables ==
    { DEFAULT_TIER_KEYWORDS,
      (2 :> [keywords |-> << <<"a","n">> >>, grades |-> << <<"Z","Z">> >>]) }

ActiveConfigs == { DEFAULT_ACTIVE_VALUES, << <<"a","c","t","i","v","e">>, <<"n","a","n">> >> }

\* the tier of every row of the pools under every configuration, as
\* fetch_employees computes it
RowTiers ==
    [table \in FetchTables |->
        [mapping \in FieldMappings |->
            [r \in DirectRows \cup SampleRows |-> ClassifyRow(table, mapping, r)]]]

RowTier(table, mapping, r) == RowTiers[table][mapping][r]

\* StandardEmployee(gender=..., tier=..., is_active=..., department_type=...)
StandardEmployee(gender, tier, is_active, dept) ==
    [gender |-> gender, tier |-> tier, is_active |-> is_active,
     tenure_band |-> NoneVal, department_type |-> dept]

\* faulty variant: an unclassified row is stored under the entry tier
AppendWithDefaultTier(emps, tier, rec) ==
    IF tier > 0 THEN Append(emps, rec) ELSE Append(emps, [rec EXCEPT !.tier = 6])

\* `if tier > 0: employees.append(...)`
AppendClassified(emps, tier, rec) ==
    IF tier > 0 THEN Append(emps, rec) ELSE emps

\* faulty variant: tier_counts.get(key, 1), so a first record counts as two
RECURSIVE CountIntoFromOne(_, _, _)
CountIntoFromOne(counts, emps, i) ==
    IF i > Len(emps) THEN counts
    ELSE LET key == <<emps[i].tier, emps[i].gender>>
         IN  CountIntoFromOne((key :> (Get(counts, key, 1) + 1)) @@ counts, emps, i + 1)

\* tier_counts[key] = tier_counts.get(key, 0) + 1 for emps[i..]
RECURSIVE CountInto(_, _, _)
CountInto(counts, emps, i) ==
    IF i > Len(emps) THEN counts
    ELSE LET key == <<emps[i].tier, emps[i].gender>>
         IN  CountInto((key :> (Get(counts, key, 0) + 1)) @@ counts, emps, i + 1)

\* '{:.0f}' of the quotient num/den (ties to even)
RoundWhole(num, den) ==
    LET q == num \div den
        r == num % den
    IN  IF 2 * r < den THEN q
        ELSE IF 2 * r > den THEN q + 1
        ELSE IF q % 2 = 0 THEN q ELSE q + 1

\* the line the demo prints for one tier, for the tiers with m + f > 0
TierLine(counts, tier) ==
    LET m == Get(counts, <<tier, "M">>, 0)
        f == Get(counts, <<tier, "F">>, 0)
    IN  [m |-> m, f |-> f, total |-> m + f,
         f_pct |-> IF m + f > 0 THEN RoundWhole(f * 100, m + f) ELSE 0]

TierReport(counts) ==
    LET shown == {t \in 1..6 : TierLine(counts, t).total > 0}
    IN  [t \in shown |-> TierLine(counts, t)]

(***************************************************************************)
(* SpecFetch: one CSV file through connect, fetch_employees, aggregation    *)
(***************************************************************************)
\* the longest file
MaxRows == 3

RECURSIVE SeqsUpTo(_, _)
SeqsUpTo(pool, n) ==
    IF n = 0 THEN { <<>> }
    ELSE LET shorter == SeqsUpTo(pool, n - 1)
         IN  shorter \cup { Append(s, r) : s \in shorter, r \in pool }

Files == { Frame(rows) : rows \in SeqsUpTo(DirectRows, MaxRows) \cup SeqsUpTo(SampleRows, MaxRows) }

\* files at which the read raises: `except Exception` in connect
UnreadableFiles == { Unreadable(<< r >>) : r \in SampleRows }

InitFetch ==
    /\ IdleCollect /\ IdleCount /\ IdleName
    /\ title = <<>> /\ grade = <<>> /\ dt_tier = 0 /\ ct_tier = 0 /\ classified = {}
    /\ value = <<>> /\ row = EmptyDict /\ ng_gender = NoGender /\ row_gender = NoGender
    /\ tier_mapping \in FetchTables
    /\ field_mapping \in FieldMappings
    /\ gender_values \in {DEFAULT_GENDER_VALUES, [male |-> << <<"m","a","l","e">> >>]}
    /\ active_values \in ActiveConfigs
    /\ csv \in Files \cup UnreadableFiles \cup {NoFrame}
    /\ df = NoFrame
    /\ fpc = "created"
    /\ idx = 0
    /\ employees = <<>>
    /\ tier_counts = EmptyDict
    /\ report = EmptyDict

\* faulty variant: connect reports success whatever the read did
ConnectAlwaysTrue ==
    /\ fpc = "created"
    /\ df' = IF csv.loaded THEN csv ELSE NoFrame
    /\ fpc' = "connected"
    /\ UNCHANGED <<csv, active_values, idx, employees, tier_counts, report,
                   tierVars, genderVars, collectVars, countVars, nameVars>>

\* adapter.connect(): load the file and return True, or return False when
\* there is no file or the read raises
Connect ==
    /\ fpc = "created"
    /\ df' = IF csv.loaded THEN csv ELSE NoFrame
    /\ fpc' = IF csv.loaded THEN "connected" ELSE "failed"
    /\ UNCHANGED <<csv, active_values, idx, employees, tier_counts, report,
                   tierVars, genderVars, collectVars, countVars, nameVars>>

\* fetch_employees with self.df None: return []
FetchNoFrame ==
    /\ fpc \in {"created", "failed"}
    /\ ~df.loaded
    /\ employees' = <<>>
    /\ fpc' = "fetched"
    /\ UNCHANGED <<csv, df, active_values, idx, tier_counts, report,
                   tierVars, genderVars, collectVars, countVars, nameVars>>

\* fetch_employees: employees = [], the column names, the first row
FetchStart ==
    /\ fpc = "connected"
    /\ employees' = <<>>
    /\ idx' = 1
    /\ fpc' = "rows"
    /\ UNCHANGED <<csv, df, active_values, tier_counts, report,
                   tierVars, genderVars, collectVars, countVars, nameVars>>

\* one pass of `for _, row in self.df.iterrows()`
FetchRow ==
    /\ fpc = "rows"
    /\ idx <= Len(df.rows)
    /\ LET r      == df.rows[idx]
           gender == map_gender(gender_values, RawField(field_mapping, r, "gender"))
           tier   == RowTier(tier_mapping, field_mapping, r)
           active == IsActive(field_mapping, active_values, r)
           dept   == DeptField(field_mapping, r)
       IN  employees' = AppendClassified(employees, tier,
                                         StandardEmployee(gender, tier, active, dept))
    /\ idx' = idx + 1
    /\ UNCHANGED <<csv, df, active_values, fpc, tier_counts, report,
                   tierVars, genderVars, collectVars, countVars, nameVars>>

\* the rows are exhausted: return employees
FetchReturn ==
    /\ fpc = "rows"
    /\ idx > Len(df.rows)
    /\ fpc' = "fetched"
    /\ UNCHANGED <<csv, df, active_values, idx, employees, tier_counts, report,
                   tierVars, genderVars, collectVars, countVars, nameVars>>

\* the demo's tier distribution over the returned records
Aggregate ==
    /\ fpc = "fetched"
    /\ tier_counts' = CountInto(EmptyDict, employees, 1)
    /\ report' = TierReport(CountInto(EmptyDict, employees, 1))
    /\ fpc' = "aggregated"
    /\ UNCHANGED <<csv, df, active_values, idx, employees,
                   tierVars, genderVars, collectVars, countVars, nameVars>>

NextFetch ==
    \/ Connect
    \/ FetchNoFrame
    \/ FetchStart
    \/ FetchRow
    \/ FetchReturn
    \/ Aggregate

SpecFetch == InitFetch /\ [][NextFetch]_vars

(***************************************************************************)
(* SpecCount: one AggregateCount, incremented and read                      *)
(***************************************************************************)
\* the most increments one bucket takes
MaxCount == 6

InitCount ==
    /\ IdleTier /\ IdleGender /\ IdleCollect /\ IdleFetch /\ IdleName
    /\ bucket = EmptyCount
    /\ bucket_read = EmptyDict

\* tier_obj.male += 1, tier_obj.female += 1 or tier_obj.unknown += 1
AddToBucket(key) ==
    /\ total(bucket) < MaxCount
    /\ bucket' = [bucket EXCEPT ![key] = @ + 1]
    /\ bucket_read' = EmptyDict
    /\ UNCHANGED <<tierVars, genderVars, collectVars, fetchVars, nameVars>>

\* a read of the property `total`
ReadTotal ==
    /\ "total" \notin DOMAIN bucket_read
    /\ bucket_read' = ("total" :> total(bucket)) @@ bucket_read
    /\ UNCHANGED <<bucket, tierVars, genderVars, collectVars, fetchVars, nameVars>>

\* a read of the property `female_pct`, in tenths of a percent
ReadFemalePct ==
    /\ "female_pct" \notin DOMAIN bucket_read
    /\ bucket_read' = ("female_pct" :> female_pct(bucket)) @@ bucket_read
    /\ UNCHANGED <<bucket, tierVars, genderVars, collectVars, fetchVars, nameVars>>

NextCount ==
    \/ \E key \in GenderKeys : AddToBucket(key)
    \/ ReadTotal
    \/ ReadFemalePct

SpecCount == InitCount /\ [][NextCount]_vars

(***************************************************************************)
(* SpecName: estimate the gender of one first name                          *)
(***************************************************************************)
\* length bound of the generated names
MaxNameLen == 3

NameAlphabet == {"a", "s", "h", " "}

SampleNames ==
    { <<"P","r","i","y","a">>, <<"R","a","h","u","l">>, <<"N","e","h","a">>, <<"V","i","k","r","a","m">>, <<"A","n","a","n","y","a">>, <<"A","r","j","u","n">>, <<"S","u","n","i","t","a">>, <<"M","a","n","o","j">>,
      <<"X","y","z","z","y">>, <<"X","y","z","z","a">>, <<"P","R","I","Y","A">>, <<" ","r","a","h","u","l"," ">>, <<"M","a","r","i","a">>, <<"A","b","i">>, <<"Z","z","z","z","h">>,
      <<"R","a","j","e","s","h">>, <<"P","r","a","d","e","e","p">>, <<"\t">>, <<" "," "," ","\n">>,
      <<"K","r","i","s","h","n","a">>, <<" ","A","D","I","T","Y","A"," ">>, <<"R","a","v","i">>, <<"K","u","m","a","r">>, <<"D","e","e","p">>, <<"P","r","a","n","a","v","i">>, <<"E","s","h">> }

NameInputs == SampleNames \cup StringsUpTo(NameAlphabet, MaxNameLen) \cup {NoneVal}

InitName ==
    /\ IdleTier /\ IdleGender /\ IdleCollect /\ IdleFetch /\ IdleCount
    /\ eg_name \in NameInputs
    /\ eg_gender = NoGender

\* gender = estimate_gender(name)
EstimateGender ==
    /\ eg_gender = NoGender
    /\ eg_gender' = estimate_gender(eg_name)
    /\ UNCHANGED <<eg_name, tierVars, genderVars, collectVars, fetchVars, countVars>>

NextName == EstimateGender

SpecName == InitName /\ [][NextName]_vars

(***************************************************************************)
(* The collector's aggregate: what the claims speak of                     *)
(***************************************************************************)
\* the fed cards whose pass through the loop body reached the counters
Processed == {i \in 1..Len(fed) : CardReaches[impl][fed[i]]}

\* those of them that classify_title could not classify (tier 0)
Unclassified == {i \in Processed : Classified[fed[i]].tier = 0}

\* the sum of the totals of the six tier buckets
BucketSum ==
    total(tiers[1]) + total(tiers[2]) + total(tiers[3])
        + total(tiers[4]) + total(tiers[5]) + total(tiers[6])

\* C2 as stated: after N processed records of which M are unclassifiable,
\* total_profiles_analyzed equals N - M and the bucket totals sum to N - M.
C2_TotalIsClassifiedCount ==
    /\ total_profiles_analyzed = Cardinality(Processed) - Cardinality(Unclassified)
    /\ BucketSum = Cardinality(Processed) - Cardinality(Unclassified)

\* C2 as amended: after N processed records of which M are unclassifiable,
\* total_profiles_analyzed equals N (a tier-0 record is counted too) and the
\* bucket totals sum to N - M.
C2_TotalCountsEveryProfile ==
    /\ total_profiles_analyzed = Cardinality(Processed)
    /\ BucketSum = Cardinality(Processed) - Cardinality(Unclassified)

\* a search has returned after processing classified and unclassifiable records
C2_Witness ==
    /\ pc = "returned" /\ returned = "data"
    /\ Cardinality(Unclassified) >= 1
    /\ Cardinality(Processed) > Cardinality(Unclassified)

\* C3: the aggregate, and what is saved from it, holds only the per-tier/per-gender
\* counters and the processed total: no per-record entry (initial, title, gender,
\* tier) is kept in memory or written to a file.
C3_NoIndividualData ==
    /\ raw_entries = <<>>
    /\ result_raw = <<>>
    /\ \A i \in 1..Len(saved) : saved[i].kind \in {"json", "csv"}

\* C4: a pass of the card loop over a record of tier t in 1..6 and gender g adds
\* exactly 1 to the counter of g (male for M, female for F, unknown otherwise) in
\* the bucket of tier t and leaves the other 17 counters as they were.
C4_AddFrame ==
    [][ ( /\ Len(fed') = Len(fed) + 1
          /\ Reaches(impl, fed'[Len(fed')])
          /\ Classified[fed'[Len(fed')]].tier \in 1..6 )
        => LET card == fed'[Len(fed')]
               g == Classified[card].gender
               key == CASE g = "M" -> "male" [] g = "F" -> "female" [] OTHER -> "unknown"
           IN  \A t \in 1..6, k \in GenderKeys :
                   tiers'[t][k] = tiers[t][k]
                        + (IF t = Classified[card].tier /\ k = key THEN 1 ELSE 0) ]_vars

\* a record of unknown gender has just been added to a tier that already held a
\* record
C4_Witness ==
    /\ Len(fed) >= 2
    /\ Reaches(impl, fed[Len(fed)])
    /\ Classified[fed[Len(fed)]].tier \in 1..6
    /\ Classified[fed[Len(fed)]].gender = "U"
    /\ tiers[Classified[fed[Len(fed)]].tier].unknown >= 1
    /\ BucketSum >= 2

(***************************************************************************)
(* Tier classification: what the claims speak of                           *)
(***************************************************************************)
TitleLower == lower(Or(title, <<>>))
GradeUpper == upper(Or(grade, <<>>))

\* the tiers one of whose keywords the code finds in the title
DtKeywordTiers == {t \in 1..6 : KeywordHit(tier_mapping, t, TitleLower)}
DtGradeTiers == {t \in 1..6 : GradeHit(tier_mapping, t, GradeUpper)}
CtKeywordTiers == {t \in 1..6 : ~Falsy(title) /\ TitleKeywordHit(t, PadTitle(title))}

\* C1: when the title matches keywords of two tiers t1 < t2, the classifier never
\* returns t2: it returns a tier no greater than t1, and t1 itself when no tier
\* below t1 matches (DataAdapter.classify_tier under every rule table, and
\* classify_title).
C1_AscendingPriority ==
    /\ "classify_tier" \in classified =>
        \A t1 \in DtKeywordTiers, t2 \in DtKeywordTiers :
            t1 < t2 =>
                /\ dt_tier /= t2
                /\ dt_tier \in 1..t1
                /\ (\A t \in 1..(t1 - 1) : t \notin DtKeywordTiers \cup DtGradeTiers)
                      => dt_tier = t1
    /\ "classify_title" \in classified =>
        \A t1 \in CtKeywordTiers, t2 \in CtKeywordTiers :
            t1 < t2 =>
                /\ ct_tier /= t2
                /\ ct_tier \in 1..t1
                /\ (\A t \in 1..(t1 - 1) : t \notin CtKeywordTiers) => ct_tier = t1

\* a title that matches two tiers in both classifiers has been classified as the
\* lower of them
C1_Witness ==
    /\ classified = {"classify_tier", "classify_title"}
    /\ \E t1 \in DtKeywordTiers, t2 \in DtKeywordTiers : t1 < t2 /\ dt_tier = t1
    /\ \E t1 \in CtKeywordTiers, t2 \in CtKeywordTiers : t1 < t2 /\ ct_tier = t1

\* C6: classify_tier and classify_title are total: for every title and grade, None
\* and empty included, and every rule table, the result is an integer in 0..6, and
\* it is 0 exactly when no tier's keyword check or grade check succeeds.
C6_ClassifyTotal ==
    /\ "classify_tier" \in classified =>
        /\ dt_tier \in 0..6
        /\ dt_tier = 0 <=> DtKeywordTiers \cup DtGradeTiers = {}
    /\ "classify_title" \in classified =>
        /\ ct_tier \in 0..6
        /\ ct_tier = 0 <=> CtKeywordTiers = {}

\* a missing title and a missing grade have been classified as 0, under a rule
\* table that lacks tiers and keys
C6_Witness ==
    /\ classified = {"classify_tier", "classify_title"}
    /\ title = NoneVal /\ grade = NoneVal
    /\ DOMAIN tier_mapping /= 1..6 /\ tier_mapping /= EmptyDict
    /\ dt_tier = 0 /\ ct_tier = 0

\* word-boundary matching as the claim C7 states it: the space-padded lower-cased
\* pattern is a substring of the space-padded lower-cased title
WordMatch(pattern, t) ==
    contains(<<" ">> \o lower(t) \o <<" ">>, <<" ">> \o lower(strip(pattern)) \o <<" ">>)

WordKeywordTiers ==
    {t \in 1..6 : LET kws == TierKeywords(tier_mapping, t)
                  IN  \E k \in 1..Len(kws) : WordMatch(kws[k], Or(title, <<>>))}

WordTitleTiers ==
    {t \in 1..6 : \E k \in 1..Len(TitleTierKeywords[t]) :
                      WordMatch(TitleTierKeywords[t][k], Or(title, <<>>))}

\* C7: a keyword matches a title iff the space-padded lower-cased keyword is a
\* substring of the space-padded lower-cased title, so that a keyword found only
\* inside a longer word does not match.
C7_WordBoundaryMatching ==
    /\ "classify_tier" \in classified => DtKeywordTiers = WordKeywordTiers
    /\ "classify_title" \in classified => CtKeywordTiers = WordTitleTiers

\* the tiers that list a grade code equal, up to letter case, to the given grade
CaseFoldGradeTiers ==
    {t \in 1..6 : LET gs == TierGrades(tier_mapping, t)
                  IN  \E k \in 1..Len(gs) : upper(gs[k]) = GradeUpper}

\* C8: grade codes match case-insensitively under every rule table: when the
\* title matches no keyword and the grade is a case variant of a code listed for
\* tier t, and of no code of a lower tier, the result is t.
C8_GradeCaseInsensitive ==
    ("classify_tier" \in classified /\ DtKeywordTiers = {}) =>
        \A t \in CaseFoldGradeTiers :
            (\A u \in 1..(t - 1) : u \notin CaseFoldGradeTiers) => dt_tier = t

(***************************************************************************)
(* fetch_employees: what the claims speak of                                *)
(***************************************************************************)
\* the number of rows the row loop has gone through
RowsDone ==
    IF fpc = "rows" THEN idx - 1
    ELSE IF fpc \in {"fetched", "aggregated"} THEN Len(df.rows)
    ELSE 0

\* the rows gone through whose title/grade classifies to a tier in 1..6
KeptRows ==
    {i \in 1..RowsDone : RowTier(tier_mapping, field_mapping, df.rows[i]) \in 1..6}

\* the k-th of them, in input order
KthKept(k) == CHOOSE i \in KeptRows : Cardinality({j \in KeptRows : j < i}) = k - 1

\* C11: fetch_employees drops a row iff its tier is 0: the list holds exactly one
\* record per row gone through whose title/grade classifies to a tier in 1..6,
\* whatever its gender, in input order, each with the tier and gender of its row;
\* no record has tier 0 or a tier its row did not classify to.
C11_DropIffUnclassified ==
    /\ Len(employees) = Cardinality(KeptRows)
    /\ \A k \in 1..Len(employees) :
          /\ employees[k].tier \in 1..6
          /\ k <= Cardinality(KeptRows) =>
                LET r == df.rows[KthKept(k)]
                IN  /\ employees[k].tier = RowTier(tier_mapping, field_mapping, r)
                    /\ employees[k].gender =
                           map_gender(gender_values, RawField(field_mapping, r, "gender"))

\* three rows fetched: one dropped, two kept, one of the kept with gender O
C11_Witness ==
    /\ fpc = "fetched"
    /\ Len(df.rows) = 3
    /\ Len(employees) = 2
    /\ \E k \in 1..2 : employees[k].gender = "O"
    /\ employees[1].tier /= employees[2].tier

(***************************************************************************)
(* The card loop: a card whose processing raises                            *)
(***************************************************************************)
\* C12: a card whose processing raises (or that is skipped for want of a name)
\* adds nothing to any counter, to the processed total or to the entries kept,
\* and the card loop goes on; a later card that can be processed is counted
\* whatever came before it.
C12_SkipAndContinue ==
    [][\A card \in CardPool :
          (pc = "cards" /\ fed' = Append(fed, card)) =>
              IF Reaches(impl, card)
              THEN total_profiles_analyzed' = total_profiles_analyzed + 1
              ELSE /\ tiers' = tiers
                   /\ total_profiles_analyzed' = total_profiles_analyzed
                   /\ raw_entries' = raw_entries
                   /\ pc' = "cards"]_vars

\* a card that raised, then a card that was processed and counted
C12_Witness ==
    /\ Len(fed) >= 2
    /\ ~Reaches(impl, fed[1])
    /\ Reaches(impl, fed[2])
    /\ total_profiles_analyzed = 1
    /\ impl = "linkedin"

\* the step of the row loop over df.rows[idx]
RowStep == fpc = "rows" /\ idx' = idx + 1

\* the row has no column for a field the mapping names
Lacks(r, field) == field \in DOMAIN field_mapping /\ field_mapping[field] \notin DOMAIN r

\* the field is not mapped, or the row has no column for it
Absent(r, field) == field \notin DOMAIN field_mapping \/ Lacks(r, field)

\* the step stored nothing for a row of tier 0, and one record of that tier otherwise
StoredWithTier(tier) ==
    IF tier = 0 THEN employees' = employees
    ELSE /\ Len(employees') = Len(employees) + 1
         /\ employees'[Len(employees')].tier = tier

\* C13: a row that lacks a mapped field is handled as if the field were the empty
\* string: with title and grade both missing the row is dropped, with one of them
\* missing the tier is that of the other alone, with the gender missing a stored
\* record has gender O; the row loop goes on to the next row.
C13_MissingFieldIsEmpty ==
    [][RowStep =>
        LET r == df.rows[idx]
        IN  /\ (Absent(r, "title") /\ Absent(r, "grade")
                    /\ (Lacks(r, "title") \/ Lacks(r, "grade")))
                  => employees' = employees
            /\ (Lacks(r, "title") /\ ~Absent(r, "grade"))
                  => StoredWithTier(classify_tier(tier_mapping, <<>>,
                                                  Str(r[field_mapping["grade"]])))
            /\ (Lacks(r, "grade") /\ ~Absent(r, "title"))
                  => StoredWithTier(classify_tier(tier_mapping,
                                                  Str(r[field_mapping["title"]]), <<>>))
            /\ Lacks(r, "gender")
                  => \/ employees' = employees
                     \/ employees'[Len(employees')].gender = "O"
            /\ fpc' = "rows"]_vars

\* a file whose rows lack the mapped gender and grade columns: rows were dropped
\* and a row was stored with gender O
C13_Witness ==
    /\ fpc = "fetched"
    /\ Len(df.rows) = 3
    /\ \A i \in 1..3 : Lacks(df.rows[i], "gender") /\ Lacks(df.rows[i], "grade")
    /\ Len(employees) \in 1..2
    /\ \A k \in 1..Len(employees) : employees[k].gender = "O"

(***************************************************************************)
(* AggregateCount: the derived values                                       *)
(***************************************************************************)
Known == bucket.male + bucket.female

OffBy(p) == IF p * Known >= bucket.female * 1000
            THEN p * Known - bucket.female * 1000
            ELSE bucket.female * 1000 - p * Known

C14_WitnessUnknownOnly ==
    /\ DOMAIN bucket_read = {"total", "female_pct"}
    /\ Known = 0 /\ bucket.unknown >= 1

(***************************************************************************)
(* Reading the aggregate                                                    *)
(***************************************************************************)
\* the counters a printed summary shows
SummaryCounters ==
    [t \in 1..6 |-> [male |-> summary.rows[t].male, female |-> summary.rows[t].female,
                     unknown |-> summary.rows[t].unknown]]

\* the counters the JSON file holds
FileCounters == [t \in 1..6 |-> saved[1].rows[t]]

\* C15: two readings of the aggregate with no add between them agree: the summary
\* printed and the file saved after it show the same 18 counters and the same
\* total_profiles_analyzed, which are those of the aggregate.
C15_ReadsAgree ==
    pc = "saved" =>
        /\ SummaryCounters = FileCounters
        /\ summary.total_profiles_analyzed = saved[1].total_profiles_analyzed
        /\ FileCounters = tiers
        /\ saved[1].total_profiles_analyzed = total_profiles_analyzed

\* a result with counted profiles has been printed and then saved
C15_Witness ==
    /\ pc = "saved"
    /\ total_profiles_analyzed >= 2
    /\ BucketSum >= 1

ExampleRun ==
    /\ df = Frame(<< [title |-> <<"S","o","f","t","w","a","r","e"," ","E","n","g","i","n","e","e","r">>, gender |-> <<"F">>],
                     [title |-> <<"C","E","O">>,               gender |-> <<"M">>],
                     [title |-> <<"X","y","z"," ","U","n","k","n","o","w","n"," ","R","o","l","e">>,  gender |-> <<"M">>] >>)
    /\ field_mapping = [title |-> "title", gender |-> "gender"]
    /\ tier_mapping = DEFAULT_TIER_KEYWORDS
    /\ gender_values = DEFAULT_GENDER_VALUES

\* C17: the example rows yield exactly two records, tier 6 / F then tier 2 / M,
\* the third row being dropped; aggregated, Tier 2 male = 1, Tier 6 female = 1,
\* every other counter is 0 and two records were processed.
C17_WorkedExample ==
    (ExampleRun /\ fpc \in {"fetched", "aggregated"}) =>
        /\ Len(employees) = 2
        /\ employees[1].tier = 6 /\ employees[1].gender = "F"
        /\ employees[2].tier = 2 /\ employees[2].gender = "M"
        /\ fpc = "aggregated" =>
              /\ \A t \in 1..6 : \A g \in {"M", "F", "O"} :
                    Get(tier_counts, <<t, g>>, 0) =
                        IF <<t, g>> \in { <<2, "M">>, <<6, "F">> } THEN 1 ELSE 0
              /\ DOMAIN report = {2, 6}
              /\ report[2].m = 1 /\ report[2].f = 0 /\ report[2].f_pct = 0
              /\ report[6].m = 0 /\ report[6].f = 1 /\ report[6].f_pct = 100

\* the example has been fetched and aggregated
C17_Witness == ExampleRun /\ fpc = "aggregated" /\ Len(employees) = 2 /\ idx = 4

(***************************************************************************)
(* Reference values of the classifiers                                      *)
(***************************************************************************)
ReferenceTitles ==
    { [title |-> <<>>,                       tier |-> 0],
      [title |-> <<"C","h","i","e","f"," ","E","x","e","c","u","t","i","v","e"," ","O","f","f","i","c","e","r">>, tier |-> 2],
      [title |-> <<"I","n","d","e","p","e","n","d","e","n","t"," ","D","i","r","e","c","t","o","r">>,    tier |-> 1],
      [title |-> <<"S","e","n","i","o","r"," ","M","a","n","a","g","e","r">>,          tier |-> 4] }

\* C18: both classifiers give the reference tiers: '' -> 0,
\* 'Chief Executive Officer' -> 2, 'Independent Director' -> 1 and
\* 'Senior Manager' -> 4; classify_tier under the default table with no grade.
C18_ReferenceTitles ==
    \A ref \in ReferenceTitles :
        title = ref.title =>
            /\ "classify_title" \in classified => ct_tier = ref.tier
            /\ ("classify_tier" \in classified
                    /\ tier_mapping = DEFAULT_TIER_KEYWORDS
                    /\ grade \in {<<>>, NoneVal})
                  => dt_tier = ref.tier

\* 'Senior Manager' classified by both classifiers as tier 4
C18_Witness ==
    /\ title = <<"S","e","n","i","o","r"," ","M","a","n","a","g","e","r">>
    /\ grade = <<>>
    /\ tier_mapping = DEFAULT_TIER_KEYWORDS
    /\ classified = {"classify_tier", "classify_title"}
    /\ dt_tier = 4 /\ ct_tier = 4

(***************************************************************************)
(* Name-based gender estimation: reference values                           *)
(***************************************************************************)
\* the name is empty or holds white space only
BlankName == eg_name /= NoneVal /\ \A i \in 1..Len(eg_name) : eg_name[i] \in Whitespace

\* C19: estimate_gender returns F for 'Priya', M for 'Rahul', U for the empty or
\* white-space-only name and, for 'Xyzzy', which is outside the lexicon, what the
\* suffix rules give (no listed ending: U); the result is always one of M, F, U.
C19_EstimateReference ==
    eg_gender /= NoGender =>
        /\ eg_gender \in {"M", "F", "U"}
        /\ eg_name = <<"P","r","i","y","a">> => eg_gender = "F"
        /\ eg_name = <<"R","a","h","u","l">> => eg_gender = "M"
        /\ BlankName => eg_gender = "U"
        /\ eg_name = <<"X","y","z","z","y">> => eg_gender = "U"

\* 'Rahul' has been estimated as M
C19_Witness == eg_name = <<"R","a","h","u","l">> /\ eg_gender = "M"

(***************************************************************************)
(* fetch_employees: the status of a record                                  *)
(***************************************************************************)
\* the configured active tokens
ActiveTokens == {active_values[i] : i \in 1..Len(active_values)}

\* the status value of a row, as a string ('' without the column)
StatusOf(r) ==
    IF field_mapping["status"] \in DOMAIN r THEN Str(r[field_mapping["status"]]) ELSE <<>>

\* C20: with a status field mapped, a record is active iff the status value of its
\* row is one of the configured active tokens; with no status field mapped, every
\* record is active.
C20_StatusDecidesActive ==
    \A k \in 1..Len(employees) :
        k <= Cardinality(KeptRows) =>
            LET r == df.rows[KthKept(k)]
            IN  IF "status" \in DOMAIN field_mapping
                THEN employees[k].is_active = (StatusOf(r) \in ActiveTokens)
                ELSE employees[k].is_active = TRUE

\* with the status mapped, an active and an inactive record were returned
C20_Witness ==
    /\ fpc = "fetched"
    /\ "status" \in DOMAIN field_mapping
    /\ Len(employees) >= 2
    /\ employees[1].is_active
    /\ ~employees[2].is_active

\* with no status mapped, a record was returned as active
C20_WitnessUnmapped ==
    /\ fpc = "fetched"
    /\ "status" \notin DOMAIN field_mapping
    /\ Len(employees) >= 1

\* ---------------------------------------------------------------------
\* C21  persisted aggregate: six tier rows with seven columns
\* ---------------------------------------------------------------------
TierColumns ==
    {"Tier", "Tier_Name", "Male", "Female", "Unknown", "Total", "Female_Pct"}

\* the file holds one row per tier 1..6 in ascending order, each with the
\* seven columns, the tier's own counters and Total = Male + Female + Unknown
HasTierRows(file) ==
    /\ file.kind \in {"json", "csv"}
    /\ DOMAIN file.rows = 1..6
    /\ \A t \in 1..6 :
          /\ TierColumns \subseteq DOMAIN file.rows[t]
          /\ file.rows[t].Tier = t
          /\ file.rows[t].Tier_Name = CsvTierNames[t]
          /\ file.rows[t].Male = tiers[t].male
          /\ file.rows[t].Female = tiers[t].female
          /\ file.rows[t].Unknown = tiers[t].unknown
          /\ file.rows[t].Total
               = file.rows[t].Male + file.rows[t].Female + file.rows[t].Unknown
          /\ file.rows[t].Female_Pct = female_pct(tiers[t])

\* C21: once a run has saved its result, the persisted aggregate has one row
\* per tier 1..6 in ascending order, empty tiers included, each row carrying
\* tier number, tier name, male, female, unknown, total and female_pct with
\* total = male + female + unknown, and the rows give back every counter of
\* the aggregate unchanged.
C21_PersistedTierRows ==
    pc = "saved" => \E i \in DOMAIN saved : HasTierRows(saved[i])

\* the same for the runs of the equiverse collector only, which writes the CSV
C21_CsvTierRows ==
    (pc = "saved" /\ impl = "equiverse") => HasTierRows(saved[2])

\* the three stored counters of every tier are in the JSON file of both copies
C21_JsonKeepsCounters ==
    pc = "saved" =>
        /\ saved[1].kind = "json"
        /\ \A t \in 1..6 : /\ DOMAIN saved[1].rows[t] = GenderKeys
                           /\ saved[1].rows[t] = tiers[t]

\* ---------------------------------------------------------------------
\* C22  connect reports failure as False; fetch without a frame is empty
\* ---------------------------------------------------------------------
\* C22: connect has returned False exactly when the file is missing or cannot
\* be read, and then no frame is held; it has returned True only with the
\* file's data loaded; a file that failed to load is never loaded later (no
\* retry); fetch_employees without a loaded frame returns the empty list.
C22_ConnectReportsFailure ==
    /\ fpc = "failed" => (~csv.loaded /\ df = NoFrame)
    /\ fpc \in {"connected", "rows"} => (csv.loaded /\ df = csv)
    /\ ~csv.loaded => (df = NoFrame /\ fpc \in {"created", "failed", "fetched", "aggregated"}
                      /\ employees = <<>>)
    /\ ~df.loaded => employees = <<>>

\* connect has returned False on a file that exists, has a line and cannot be read
C22_Witness ==
    /\ fpc = "failed"
    /\ csv \in UnreadableFiles
    /\ csv.rows /= <<>>
    /\ df = NoFrame

\* ---------------------------------------------------------------------
\* C23  classify_tier: the least tier whose keyword or grade check succeeds
\* ---------------------------------------------------------------------
\* the least tier of a non-empty set of tiers
Least(ts) == CHOOSE t \in ts : \A u \in ts : t <= u

\* C23: classify_tier returns the least tier among all tiers whose keyword
\* check or grade check succeeds (min(a, b) for a keyword tier a and a grade
\* tier b), whichever of the two checks it is; with an empty title the result
\* is the least tier listing the grade, and 0 when no tier lists it.
C23_FirstOfEitherCheck ==
    "classify_tier" \in classified =>
        /\ DtKeywordTiers \cup DtGradeTiers /= {}
              => dt_tier = Least(DtKeywordTiers \cup DtGradeTiers)
        /\ \A a \in DtKeywordTiers, b \in DtGradeTiers : dt_tier <= a /\ dt_tier <= b
        /\ TitleLower = <<>> =>
              dt_tier = IF DtGradeTiers = {} THEN 0 ELSE Least(DtGradeTiers)

\* a title with a keyword of tier a and a grade of a more senior tier b < a
\* has been classified as b
C23_Witness ==
    /\ "classify_tier" \in classified
    /\ \E a \in DtKeywordTiers, b \in DtGradeTiers :
          /\ b < a
          /\ dt_tier = b
          /\ \A t \in DtKeywordTiers : b < t

\* a title with a keyword of tier a and a grade of a less senior tier b > a
\* has been classified as a
C23_WitnessTitleWins ==
    /\ "classify_tier" \in classified
    /\ \E a \in DtKeywordTiers, b \in DtGradeTiers :
          /\ a < b
          /\ dt_tier = a
          /\ \A t \in DtGradeTiers : a < t

\* an empty title has been classified by its grade alone
C23_WitnessEmptyTitle ==
    /\ "classify_tier" \in classified
    /\ title = <<>>
    /\ DtGradeTiers /= {}
    /\ dt_tier = Least(DtGradeTiers)

\* ---------------------------------------------------------------------
\* C24  default rule table: every listed keyword classifies as its own tier
\* ---------------------------------------------------------------------
\* the tiers of the default table that list the title itself as a keyword
ListingTiers == {t \in 1..6 : InList(TitleLower, TierKeywords(DEFAULT_TIER_KEYWORDS, t))}

\* C24: under the default rule table a title that is exactly a keyword listed
\* for tier t, given with no grade of any tier, classifies as tier t: no listed
\* keyword is shadowed by a keyword of a lower-numbered tier.
C24_EveryKeywordEffective ==
    ( /\ "classify_tier" \in classified
      /\ tier_mapping = DEFAULT_TIER_KEYWORDS
      /\ DtGradeTiers = {} )
        => \A t \in ListingTiers : dt_tier = t

\* listed keywords that are effective: 'intern' is tier 6, 'team lead' tier 5
C24_EffectiveKeyword ==
    ( /\ "classify_tier" \in classified
      /\ tier_mapping = DEFAULT_TIER_KEYWORDS
      /\ DtGradeTiers = {}
      /\ TitleLower \in { <<"i","n","t","e","r","n">>, <<"t","e","a","m"," ","l","e","a","d">>, <<"s","e","n","i","o","r"," ","m","a","n","a","g","e","r">>, <<"c","e","o">> } )
        => \A t \in ListingTiers : dt_tier = t

\* ---------------------------------------------------------------------
\* C25..C27  estimate_gender: lexicon first, then the endings
\* ---------------------------------------------------------------------
\* the name as estimate_gender looks it up: lower-cased, then trimmed
LookupName == IF Falsy(eg_name) THEN <<>> ELSE strip(lower(eg_name))

InLexicon == LookupName \in FemaleNames \cup MaleNames

\* the name ends in one of the endings of the list
EndsInOneOf(endings) == \E k \in 1..Len(endings) : endswith(LookupName, endings[k])

\* C25: a name whose trimmed lower-case form is in the lexicon gets the
\* lexicon's gender, whatever its letter case, the white space around it and
\* its ending: 'Krishna', ' ADITYA ' and 'Ravi' are Male although they end in
\* 'a' or 'i', 'PRIYA' is Female.
C25_LexiconFirst ==
    eg_gender /= NoGender =>
        /\ InLexicon => eg_gender = (IF LookupName \in MaleNames THEN "M" ELSE "F")
        /\ eg_name \in { <<"K","r","i","s","h","n","a">>, <<" ","A","D","I","T","Y","A"," ">>, <<"R","a","v","i">>, <<" ","r","a","h","u","l"," ">> } => eg_gender = "M"
        /\ eg_name \in { <<"P","R","I","Y","A">>, <<"A","n","a","n","y","a">> } => eg_gender = "F"

\* ' ADITYA ', a lexicon-male name in upper case with white space around it
\* that ends in the female ending 'ya', has been estimated as M
C25_Witness ==
    /\ eg_name = <<" ","A","D","I","T","Y","A"," ">>
    /\ InLexicon
    /\ EndsInOneOf(female_endings) /\ Len(LookupName) > 3
    /\ eg_gender = "M"

\* the minimum-length threshold of the female endings: `len(name) > 3`
FemaleThreshold == 3

\* the looked-up name is itself one of the endings of the list
IsAnEnding(endings) == \E k \in 1..Len(endings) : LookupName = endings[k]

\* C26: outside the lexicon an ending classifies a name only when the name is
\* longer than the ending's threshold, for female and male endings alike: a
\* name no longer than the threshold that ends in a female ending, and a name
\* that is nothing but an ending of either list, is Unknown.
C26_ThresholdForAllEndings ==
    (eg_gender /= NoGender /\ ~InLexicon) =>
        /\ (EndsInOneOf(female_endings) /\ Len(LookupName) <= FemaleThreshold)
              => eg_gender = "U"
        /\ (IsAnEnding(female_endings) \/ IsAnEnding(male_endings)) => eg_gender = "U"

\* the part that holds: the threshold of the female endings
C26_FemaleThreshold ==
    (eg_gender /= NoGender /\ ~InLexicon) =>
        /\ (EndsInOneOf(female_endings) /\ Len(LookupName) <= FemaleThreshold)
              => eg_gender = "U"
        /\ IsAnEnding(female_endings) => eg_gender = "U"

\* a female ending applies: the name ends in it and is longer than the threshold
FemaleApplies == EndsInOneOf(female_endings) /\ Len(LookupName) > FemaleThreshold

\* C27: outside the lexicon the female endings are tried before the male ones:
\* the result is Female whenever a female ending applies, and Male exactly
\* when no female ending applies and the name ends in a male ending; otherwise
\* it is Unknown.
C27_FemaleEndingsFirst ==
    (eg_gender /= NoGender /\ ~Falsy(eg_name) /\ ~InLexicon) =>
        /\ FemaleApplies => eg_gender = "F"
        /\ eg_gender = "F" => FemaleApplies
        /\ eg_gender = "M" <=> (~FemaleApplies /\ EndsInOneOf(male_endings))

\* 'Pranavi', outside the lexicon, holds the male ending 'av' inside and ends
\* in the female ending 'i': it has been estimated as F
C27_Witness ==
    /\ eg_name = <<"P","r","a","n","a","v","i">>
    /\ ~InLexicon
    /\ FemaleApplies
    /\ eg_gender = "F"

\* 'ash', outside the lexicon, ends in no female ending and in the male
\* ending 'sh': it has been estimated as M
C27_WitnessMale ==
    /\ eg_name = <<"a","s","h">>
    /\ ~InLexicon
    /\ ~FemaleApplies /\ EndsInOneOf(male_endings)
    /\ eg_gender = "M"

\* no name of the specification ends in a female and in a male ending at once
C27_NoNameEndsInBoth ==
    ~(EndsInOneOf(female_endings) /\ EndsInOneOf(male_endings))

\* ---------------------------------------------------------------------
\* C28  classify_tier: the order of a tier's keywords does not matter
\* ---------------------------------------------------------------------
\* keyword lists up to this length are tried in every order
MaxPermLen == 3

\* the list in the order given by the permutation p of its positions
Reordered(s, p) == [k \in 1..Len(s) |-> s[p[k]]]

Reverse(s) == [k \in 1..Len(s) |-> s[Len(s) + 1 - k]]

RotateLeft(s) == [k \in 1..Len(s) |-> s[(k % Len(s)) + 1]]

\* the list with the entries at positions i and j exchanged
SwapAt(s, i, j) ==
    [k \in 1..Len(s) |-> IF k = i THEN s[j] ELSE IF k = j THEN s[i] ELSE s[k]]

\* the orders tried for a keyword list: all of them for a short list; the
\* reverse, a rotation and every exchange of two entries for a long one
Reorderings(s) ==
    IF Len(s) <= MaxPermLen
    THEN { Reordered(s, p) : p \in Permutations(1..Len(s)) }
    ELSE { Reverse(s), RotateLeft(s) }
            \cup { SwapAt(s, i, j) : i \in 1..Len(s), j \in 1..Len(s) }

\* the rule table with the keyword list of one tier replaced
WithKeywords(mapping, t, kws) == (t :> [mapping[t] EXCEPT !.keywords = kws]) @@ mapping

\* the tiers of the rule table that have a keyword list
KeywordedTiers == {t \in DOMAIN tier_mapping : "keywords" \in DOMAIN tier_mapping[t]}

\* C28: for every rule table, title and grade, classify_tier returns the same
\* tier when the keyword list of any single tier is given in another order.
C28_KeywordOrderIrrelevant ==
    "classify_tier" \in classified =>
        \A t \in KeywordedTiers :
            \A kws \in Reorderings(tier_mapping[t].keywords) :
                classify_tier(WithKeywords(tier_mapping, t, kws), title, grade) = dt_tier

\* a title has been classified by a keyword that is not the first of its
\* tier's list, so that in another order a different keyword is found first
C28_Witness ==
    /\ "classify_tier" \in classified
    /\ dt_tier \in KeywordedTiers
    /\ LET kws == tier_mapping[dt_tier].keywords
       IN  /\ Len(kws) >= 2
           /\ ~contains(TitleLower, kws[1])
           /\ \E k \in 2..Len(kws) : contains(TitleLower, kws[k])
           /\ \E k1 \in 1..Len(kws), k2 \in 1..Len(kws) :
                 k1 /= k2 /\ contains(TitleLower, kws[k1]) /\ contains(TitleLower, kws[k2])

\* ---------------------------------------------------------------------
\* C29  the counters of a collection run: non-negative, never decreasing
\* ---------------------------------------------------------------------
\* the 18 counters and the processed total are natural numbers, and the bucket
\* totals sum to at most the processed total, to exactly it when no processed
\* profile was unclassifiable
CountersInRange ==
    /\ \A t \in 1..6 : \A g \in GenderKeys : tiers[t][g] >= 0
    /\ total_profiles_analyzed >= 0
    /\ BucketSum <= total_profiles_analyzed
    /\ BucketSum = total_profiles_analyzed <=> Unclassified = {}

\* no step lowers a counter or the processed total
CountersGrow ==
    /\ \A t \in 1..6 : \A g \in GenderKeys : tiers'[t][g] >= tiers[t][g]
    /\ total_profiles_analyzed' >= total_profiles_analyzed

\* C29: in every reachable state of a collection run the 18 counters and
\* total_profiles_analyzed are non-negative, no step decreases any of them, and
\* the sum of the six bucket totals is at most total_profiles_analyzed, equal
\* to it exactly when no unclassifiable (tier 0) profile has been processed.
C29_CountersMonotone == []CountersInRange /\ [][CountersGrow]_vars

\* a run has counted into two cells of one tier and processed a tier-0 profile:
\* the bucket sum is below the processed total
C29_Witness ==
    /\ \E t \in 1..6 : \E g1 \in GenderKeys, g2 \in GenderKeys :
          g1 /= g2 /\ tiers[t][g1] >= 1 /\ tiers[t][g2] >= 1
    /\ Unclassified /= {}
    /\ BucketSum >= 2
    /\ BucketSum < total_profiles_analyzed

\* a run has processed classified profiles only: the bucket sum is the total
C29_WitnessEqual ==
    /\ Unclassified = {}
    /\ total_profiles_analyzed >= 2
    /\ BucketSum = total_profiles_analyzed

\* ---------------------------------------------------------------------
\* C30  collection is gated on login
\* ---------------------------------------------------------------------
\* no result has been created and nothing has been counted or kept
NoAggregate ==
    /\ tiers = EmptyTiers
    /\ total_profiles_analyzed = 0
    /\ fed = <<>> /\ raw_entries = <<>> /\ result_raw = <<>>
    /\ summary = EmptyDict /\ saved = <<>>

\* the flag is down until a login has been made; a search that returned None
\* was made with the flag down and left no aggregate; pages are loaded and
\* data is returned with the flag up only
LoginGate ==
    /\ login_result = "none" => ~is_logged_in
    /\ returned = "None" => (~is_logged_in /\ pc = "returned" /\ NoAggregate)
    /\ (pc \in {"page", "cards", "printed", "saved"} \/ returned = "data") => is_logged_in

\* the flag goes up only in a login call that succeeds, and a login call that
\* fails leaves it as it was
LoginStep ==
    /\ (~is_logged_in /\ is_logged_in') => (pc = "idle" /\ pc' = "idle" /\ login_result' = "ok")
    /\ (pc = "idle" /\ pc' = "idle" /\ login_result' = "failed")
          => is_logged_in' = is_logged_in
    /\ (pc = "idle" /\ ~is_logged_in /\ pc' /= "idle")
          => (pc' = "returned" /\ returned' = "None" /\ NoAggregate')

\* C30: is_logged_in is false until a login call succeeds and is raised by
\* nothing else; a failed login leaves it unchanged; search_company_employees
\* called while it is false returns None and creates or increments no
\* aggregate.
C30_LoginGatesCollection == []LoginGate /\ [][LoginStep]_vars

\* after a failed login the search has returned None, with nothing counted
C30_Witness ==
    /\ login_result = "failed"
    /\ ~is_logged_in
    /\ pc = "returned" /\ returned = "None"
    /\ NoAggregate

\* a login has failed after an earlier one succeeded: the flag is still up
C30_WitnessFailedAfterOk ==
    /\ login_result = "failed"
    /\ is_logged_in
    /\ pc = "idle"

====
